---- MODULE Spec2Model ----
(***************************************************************************)
(* Model of the agent's orchestration loop, AgentLoop.run in               *)
(* src/core/loop.py, together with the plan shaping of generate_plan in    *)
(* src/modules/decision.py.                                                *)
(*                                                                         *)
(* Texts are sequences of tokens.  The tokens that the code looks for      *)
(* (the markers and white space) are kept apart from ordinary text, so     *)
(* that strip(), startswith(), "in" and split() are computed as Python     *)
(* computes them.                                                          *)
(***************************************************************************)
EXTENDS Integers, Sequences, FiniteSets, TLC

\* ------------------------------------------------------------------ bounds
MaxSteps == 2
MaxLifelines == 2

\* ------------------------------------------------------------------ tokens
FINAL == "FINAL_ANSWER:"
FURTHER == "FURTHER_PROCESSING_REQUIRED:"
ERR == "[sandbox error:"
WS == " "
TEXT_CONTENT == "content=[TextContent("
RESULT_KEY == "\"result\":"
None == <<"None">>

\* ------------------------------------------------------- Python str helpers
RECURSIVE lstrip(_)
lstrip(t) == IF t # <<>> /\ Head(t) = WS THEN lstrip(Tail(t)) ELSE t

RECURSIVE rstrip(_)
rstrip(t) ==
  IF t # <<>> /\ t[Len(t)] = WS THEN rstrip(SubSeq(t, 1, Len(t) - 1)) ELSE t

strip(t) == rstrip(lstrip(t))

startswith(t, m) == Len(t) >= 1 /\ t[1] = m

contains(t, m) == \E i \in 1..Len(t) : t[i] = m

\* index of the first occurrence of m in t at or after position i, 0 if none
RECURSIVE find(_, _, _)
find(t, m, i) ==
  IF i > Len(t) THEN 0 ELSE IF t[i] = m THEN i ELSE find(t, m, i + 1)

\* t.split(m)[1]: the text between the first and the second occurrence of m
split1(t, m) ==
  LET a == find(t, m, 1)
      b == find(t, m, a + 1)
  IN  IF b = 0 THEN SubSeq(t, a + 1, Len(t)) ELSE SubSeq(t, a + 1, b - 1)

\* --------------------------------------------------------- answers of run()
MaxIterationsAnswer == <<FINAL, WS, "[Max iterations reached]">>
MaxStepsAnswer == <<FINAL, WS, "[Max steps reached]">>
ExecutionFailedAnswer == <<FINAL, WS, "[Execution failed]">>
WrapFinal_bare(r) == r
WrapFinal(r) == <<FINAL, WS>> \o r

\* --------------------------------------------------------------- the planner
SolveLines == {"def solve():", "async def solve():"}
FinalLines ==
  {"FINAL_ANSWER: a", "FINAL_ANSWER: [Could not generate valid solve()]",
   "FINAL_ANSWER: [unknown]"}

\* re.search(r"^\s*(async\s+)?def\s+solve\s*\(", text, re.MULTILINE)
HasSolveDef(text) == \E i \in 1..Len(text) : text[i] \in SolveLines

\* "FINAL_ANSWER:" in text
HasFinalMarker(text) == \E i \in 1..Len(text) : text[i] \in FinalLines

\* the outputs of the language model that the planner is tried on; "raise" is
\* a model call that raises
\* the code fence of a fenced answer: its opening line and its closing line
FENCE_PYTHON == "fence python"
FENCE == "fence"
LLMFailure == <<"raise">>
LLMOutputs ==
  { <<"def solve():", "return">>,
    <<"async def solve():", "return">>,
    <<FENCE_PYTHON, "def solve():", "return", FENCE>>,
    <<"FINAL_ANSWER: a">>,
    <<"FINAL_ANSWER: a", "def solve():">>,
    <<"I cannot help">>,
    LLMFailure }

Unfence(raw) ==
  IF Len(raw) >= 2 /\ raw[1] = FENCE_PYTHON /\ raw[Len(raw)] = FENCE
  THEN SubSeq(raw, 2, Len(raw) - 1)
  ELSE raw

generate_plan(llm) ==
  IF llm = LLMFailure THEN <<"FINAL_ANSWER: [unknown]">>
  ELSE LET raw == Unfence(llm)
       IN  IF HasSolveDef(raw) THEN raw
           ELSE IF HasFinalMarker(raw) THEN raw
           ELSE <<"FINAL_ANSWER: [Could not generate valid solve()]">>

\* ---------------------------------------------------- servers and their tools
\* a selection is a list of server ids; server s1 offers a tool, s2 offers none
Selections == {<<>>, <<"s2">>, <<"s1">>, <<"s1", "s2">>}
ServerTools(s) == IF s = "s1" THEN {"t1"} ELSE {}
get_tools_from_servers(servers) ==
  UNION {ServerTools(servers[i]) : i \in 1..Len(servers)}

\* ------------------------------------------ what the sandbox is seen to return
SandboxOutputs ==
  { <<FINAL, WS, "a">>,
    <<FINAL, WS, "a", WS>>,
    <<WS, FINAL, WS, "a">>,
    <<FINAL, WS, "a", WS, FURTHER, WS, "b">>,
    <<FURTHER, WS, "a">>,
    <<FURTHER, WS, "a", FURTHER, "b">>,
    <<FURTHER, WS, TEXT_CONTENT, RESULT_KEY, "a", ")]">>,
    <<ERR, WS, "boom", "]">>,
    <<"a">>,
    <<"a", WS, FURTHER, WS, "b">>,
    <<>> }

\* ------------------------------------------------------------------- state
VARIABLES
  max_steps,              \* strategy.max_steps
  max_lifelines_per_step, \* strategy.max_lifelines_per_step
  pc,                     \* position of run()
  step,                   \* the for loop's variable, -1 before the first step
  lifelines_left,
  total_iterations,
  user_input_override,    \* context.user_input_override
  input_used,             \* the local user_input_override of the pass
  last_selected_servers,  \* with last_perception: None, or the cached list
  selected_servers,
  plan,
  sandbox_result,
  final_answer,           \* context.final_answer
  returned,               \* the result of run(), None while it runs
  task_progress,          \* the subtask log of the context
  memory,                 \* success flags of the stored tool outputs
  calls,                  \* how often each collaborator has been called
  inputs,                 \* the user_input last given to each collaborator
  prev,                   \* how the last finished pass ended, and in which step
  seen                    \* the ways in which the passes so far have ended

vars ==
  <<max_steps, max_lifelines_per_step, pc, step, lifelines_left,
    total_iterations, user_input_override, input_used, last_selected_servers,
    selected_servers, plan, sandbox_result, final_answer, returned,
    task_progress, memory, calls, inputs, prev, seen>>

config == <<max_steps, max_lifelines_per_step>>

\* the state of run_python_sandbox (modules/action.py)
VARIABLES
  sandbox_pc,       \* position of run_python_sandbox
  code,             \* the plan handed to the call
  namespace,        \* the names in sandbox.__dict__
  call_count,       \* SandboxMCP.call_count
  solve_ip,         \* the statement of solve() that runs next
  invoked,          \* solve() has been called in this execution
  issued,           \* the tools asked of mcp.call_tool, in order
  forwarded,        \* the tools handed to dispatcher.call_tool, in order
  in_progress,      \* dispatcher calls of this execution not yet returned
  returned_text,    \* the text run_python_sandbox returned
  escaped,          \* the exception that reached the caller: class, message
  executions,       \* calls of run_python_sandbox so far
  forwarded_before, \* calls forwarded by the earlier executions
  direct,           \* calls of mcp.dispatcher.call_tool made by the plan
  failed            \* dispatcher calls of this execution that raised

sandbox_vars ==
  <<sandbox_pc, code, namespace, call_count, solve_ip, invoked, issued,
    forwarded, in_progress, returned_text, escaped, executions,
    forwarded_before, direct, failed>>

\* before the first call of run_python_sandbox
SandboxIdle ==
  /\ sandbox_pc = "idle"
  /\ code = None
  /\ namespace = {}
  /\ call_count = 0
  /\ solve_ip = 0
  /\ invoked = FALSE
  /\ issued = <<>>
  /\ forwarded = <<>>
  /\ in_progress = 0
  /\ returned_text = None
  /\ escaped = None
  /\ executions = 0
  /\ forwarded_before = 0
  /\ direct = 0
  /\ failed = 0

\* the state of the run driver, main() in agent.py, and of its history cache
VARIABLES
  driver_pc,        \* position of main()
  history,          \* conv_history.history, as _load or add left it
  store_file,       \* historical_conversation_store.json
  clock,            \* datetime.datetime.now()
  current_session,
  next_session,     \* the identifier that AgentContext makes up next
  turn_input,       \* user_input of main()
  cached,           \* what search_similar returned in this turn
  use_cached,       \* the answer to "Use cached answer?"
  context_session,  \* context.session_id handed to the last AgentLoop
  run_result,       \* result["result"] of the last run()
  records,          \* calls of conv_history.add in this turn
  loop_runs,        \* calls of run() in this turn
  turns,            \* inputs read so far
  stopped_at,       \* where main() was when it ended
  crash,            \* what raised the exception that ended main()
  launched          \* starts of the program so far

driver_vars ==
  <<driver_pc, history, store_file, clock, current_session, next_session,
    turn_input, cached, use_cached, context_session, run_result, records,
    loop_runs, turns, stopped_at, crash, launched>>

NoSession == 0

NoEntry == [query |-> <<>>, answer |-> <<>>, timestamp |-> <<"never">>]

\* main() has not been started
DriverIdle ==
  /\ driver_pc = "idle"
  /\ history = [shape |-> "list", entries |-> <<>>]
  /\ store_file = [exists |-> FALSE, readable |-> FALSE, content |-> <<>>]
  /\ clock = 1
  /\ current_session = NoSession
  /\ next_session = 1
  /\ turn_input = <<>>
  /\ cached = NoEntry
  /\ use_cached = <<>>
  /\ context_session = NoSession
  /\ run_result = None
  /\ records = 0
  /\ loop_runs = 0
  /\ turns = 0
  /\ stopped_at = "nowhere"
  /\ crash = "nothing"
  /\ launched = 0

\* one call of ConversationHistory.search_similar
VARIABLES
  search_pc,
  stored,           \* self.history when the call starts
  query_given,
  threshold_given,
  stored_after,     \* self.history when the call returns
  found             \* the value returned

search_vars ==
  <<search_pc, stored, query_given, threshold_given, stored_after, found>>

SearchIdle ==
  /\ search_pc = "idle"
  /\ stored = <<>>
  /\ query_given = <<>>
  /\ threshold_given = <<0, 1>>
  /\ stored_after = <<>>
  /\ found = NoEntry

\* one call of extract_perception
VARIABLES
  perception_pc,
  available,        \* the keys of mcp_server_descriptions, in order
  raw,              \* what model.generate_text did
  perceived         \* the PerceptionResult returned

perception_vars == <<perception_pc, available, raw, perceived>>

NoPerception == [intent |-> "none", selected_servers |-> <<>>]

NoOutput == [kind |-> "none", fields |-> {}, selected |-> <<>>]

PerceptionIdle ==
  /\ perception_pc = "idle"
  /\ available = <<>>
  /\ raw = NoOutput
  /\ perceived = NoPerception

\* one RateLimiter of mcp_server_3.py and the tasks that call acquire()
VARIABLES
  limiter_pc,           \* "none" before RateLimiter(...) is constructed
  requests_per_minute,  \* RateLimiter.requests_per_minute
  requests,             \* RateLimiter.requests: times in seconds, in order
  seconds,              \* datetime.now(), in seconds
  waiting,              \* per task: the now and the end of its sleep
  completed,            \* the times at which calls of acquire() returned
  started               \* calls of acquire() so far

limiter_vars ==
  <<limiter_pc, requests_per_minute, requests, seconds, waiting, completed,
    started>>

Tasks == {"task1", "task2"}

Awake == [now |-> -1, wake |-> -1]

LimiterIdle ==
  /\ limiter_pc = "none"
  /\ requests_per_minute = 0
  /\ requests = <<>>
  /\ seconds = 0
  /\ waiting = [t \in Tasks |-> Awake]
  /\ completed = <<>>
  /\ started = 0

rest_of_loop ==
  <<sandbox_vars, driver_vars, search_vars, perception_vars, limiter_vars>>

Init ==
  /\ max_steps \in 0..MaxSteps
  /\ max_lifelines_per_step \in -1..MaxLifelines
  /\ pc = "for"
  /\ step = -1
  /\ lifelines_left = max_lifelines_per_step
  /\ total_iterations = 0
  /\ user_input_override = None
  /\ input_used = None
  /\ last_selected_servers = None
  /\ selected_servers = None
  /\ plan = None
  /\ sandbox_result = None
  /\ final_answer = None
  /\ returned = None
  /\ task_progress = <<>>
  /\ memory = <<>>
  /\ calls = [perception |-> 0, planner |-> 0, sandbox |-> 0]
  /\ inputs = [perception |-> None, planner |-> None]
  /\ prev = [outcome |-> "none", step |-> -1]
  /\ seen = {}
  /\ SandboxIdle
  /\ DriverIdle
  /\ SearchIdle
  /\ PerceptionIdle
  /\ LimiterIdle

\* the locals of a pass are dead once the pass has ended
EndPass(outcome) ==
  /\ input_used' = None
  /\ selected_servers' = None
  /\ plan' = None
  /\ sandbox_result' = None
  /\ prev' = [outcome |-> outcome, step |-> step]
  /\ seen' = seen \cup {outcome}

\* return {"status": "done", "result": self.context.final_answer}
Return(answer) ==
  /\ final_answer' = answer
  /\ returned' = answer
  /\ pc' = "done"

\* ------------------------------------------------------- the subtask log
log_subtask(log, s) == Append(log, [step |-> s, status |-> "pending"])

update_subtask_status(log, status) ==
  IF log = <<>> THEN log ELSE [log EXCEPT ![Len(log)].status = status]

\* ------------------------------------------------------------ the for loop
\* for step in range(max_steps): ... ; after the loop, "Max steps reached"
\* a range that lets one more step value through
HasNextStep_extra(s, ms) == s + 1 <= ms

\* range(max_steps) has a value after s
HasNextStep(s, ms) == s + 1 < ms

ForNext ==
  /\ pc = "for"
  /\ IF HasNextStep(step, max_steps)
     THEN /\ step' = step + 1
          /\ lifelines_left' = max_lifelines_per_step
          /\ pc' = "while"
          /\ UNCHANGED <<final_answer, returned>>
     ELSE /\ Return(MaxStepsAnswer)
          /\ UNCHANGED <<step, lifelines_left>>
  /\ UNCHANGED <<config, total_iterations, user_input_override, input_used,
                 last_selected_servers, selected_servers, plan, sandbox_result,
                 task_progress, memory, calls, inputs, prev, seen>>

\* ---------------------------------------------------------- the while loop
\* a cap of three passes per step instead of two
max_total_iterations_wide(ms) == ms * 3

max_total_iterations(ms) == ms * 2

\* the loop left one lifeline early
LoopCondition_strict(l) == l > 0

\* the loop entered once more with the budget already negative
LoopCondition_late(l) == l >= -1

LoopCondition(l) == l >= 0

\* the guard off by one: it fires on the pass that reaches the cap
GuardExceeded_early(t, ms) == t >= max_total_iterations(ms)

GuardExceeded(t, ms) == t > max_total_iterations(ms)

\* while lifelines_left >= 0: total_iterations += 1; the guard
WhileHead ==
  /\ pc = "while"
  /\ IF LoopCondition(lifelines_left)
     THEN /\ total_iterations' = total_iterations + 1
          /\ IF GuardExceeded(total_iterations', max_steps)
             THEN /\ Return(MaxIterationsAnswer)
                  /\ prev' = [outcome |-> "max_iterations", step |-> step]
             ELSE /\ pc' = "perceive"
                  /\ UNCHANGED <<final_answer, returned, prev>>
     ELSE /\ pc' = "for"
          /\ UNCHANGED <<total_iterations, final_answer, returned, prev>>
  /\ UNCHANGED <<config, step, lifelines_left, user_input_override, input_used,
                 last_selected_servers, selected_servers, plan, sandbox_result,
                 task_progress, memory, calls, inputs, seen>>

\* -------------------------------------------------------------- perception
Truthy(x) == x # None /\ x # <<>>

\* context.user_input, the task as the user wrote it
user_input == <<"q">>

\* x or y
Or(x, y) == IF Truthy(x) THEN x ELSE y

\* the cached perception never taken
UseCache_never == FALSE

UseCache == Truthy(user_input_override) /\ Truthy(last_selected_servers)

\* a cached pass that leaves the override in the context
PerceiveCached_kept ==
  /\ pc = "perceive"
  /\ UseCache
  /\ input_used' = user_input_override
  /\ selected_servers' = last_selected_servers
  /\ pc' = "tools"
  /\ UNCHANGED <<config, step, lifelines_left, total_iterations,
                 user_input_override, last_selected_servers, plan,
                 sandbox_result, final_answer, returned, task_progress,
                 memory, calls, inputs, prev, seen>>

PerceiveCached ==
  /\ pc = "perceive"
  /\ UseCache
  /\ input_used' = user_input_override
  /\ selected_servers' = last_selected_servers
  /\ user_input_override' = None
  /\ pc' = "tools"
  /\ UNCHANGED <<config, step, lifelines_left, total_iterations,
                 last_selected_servers, plan, sandbox_result, final_answer,
                 returned, task_progress, memory, calls, inputs, prev, seen>>

PerceiveFresh(servers) ==
  /\ pc = "perceive"
  /\ ~UseCache
  /\ input_used' = user_input_override
  /\ calls' = [calls EXCEPT !.perception = @ + 1]
  /\ inputs' =
       [inputs EXCEPT !.perception = Or(user_input_override, user_input)]
  /\ selected_servers' = servers
  /\ last_selected_servers' = servers
  /\ pc' = "tools"
  /\ UNCHANGED <<config, step, lifelines_left, total_iterations,
                 user_input_override, plan, sandbox_result, final_answer,
                 returned, task_progress, memory, prev, seen>>

\* no tools handled as one more failed try of the step
NoTools_retry ==
  /\ pc = "tools"
  /\ get_tools_from_servers(selected_servers) = {}
  /\ lifelines_left' = lifelines_left - 1
  /\ pc' = "while"
  /\ EndPass("no_tools")
  /\ UNCHANGED <<config, step, total_iterations, user_input_override,
                 last_selected_servers, final_answer, returned, task_progress,
                 memory, calls, inputs>>

\* selected_tools = ...; if not selected_tools: break
NoTools ==
  /\ pc = "tools"
  /\ get_tools_from_servers(selected_servers) = {}
  /\ pc' = "for"
  /\ EndPass("no_tools")
  /\ UNCHANGED <<config, step, lifelines_left, total_iterations,
                 user_input_override, last_selected_servers, final_answer,
                 returned, task_progress, memory, calls, inputs>>

ToolsSelected ==
  /\ pc = "tools"
  /\ get_tools_from_servers(selected_servers) # {}
  /\ pc' = "plan"
  /\ UNCHANGED <<config, step, lifelines_left, total_iterations,
                 user_input_override, input_used, last_selected_servers,
                 selected_servers, plan, sandbox_result, final_answer,
                 returned, task_progress, memory, calls, inputs, prev, seen>>

\* ---------------------------------------------------------------- planning
Plan(llm) ==
  /\ pc = "plan"
  /\ plan' = generate_plan(llm)
  /\ calls' = [calls EXCEPT !.planner = @ + 1]
  /\ inputs' = [inputs EXCEPT !.planner = Or(input_used, user_input)]
  /\ pc' = "exec"
  /\ UNCHANGED <<config, step, lifelines_left, total_iterations,
                 user_input_override, input_used, last_selected_servers,
                 selected_servers, sandbox_result, final_answer, returned,
                 task_progress, memory, prev, seen>>

\* --------------------------------------------------------------- execution
\* a retry that forgets to take a lifeline
AfterRetry_kept(l) == l

\* a retry that takes two lifelines
AfterRetry_twice(l) == l - 2

AfterRetry(l) == l - 1

\* lifelines_left -= 1; continue
Retry(outcome) ==
  /\ lifelines_left' = AfterRetry(lifelines_left)
  /\ pc' = "while"
  /\ EndPass(outcome)
  /\ UNCHANGED returned

\* a continuation that costs a lifeline
Break_paid(outcome) ==
  /\ pc' = "for"
  /\ lifelines_left' = lifelines_left - 1
  /\ EndPass(outcome)
  /\ UNCHANGED returned

\* break
Break(outcome) ==
  /\ pc' = "for"
  /\ EndPass(outcome)
  /\ UNCHANGED <<lifelines_left, returned>>

RunSandbox(out) ==
  /\ pc = "exec"
  /\ HasSolveDef(plan)
  /\ task_progress' = log_subtask(task_progress, step)
  /\ calls' = [calls EXCEPT !.sandbox = @ + 1]
  /\ sandbox_result' = out
  /\ pc' = "interpret"
  /\ UNCHANGED <<config, step, lifelines_left, total_iterations,
                 user_input_override, input_used, last_selected_servers,
                 selected_servers, plan, final_answer, returned, memory,
                 inputs, prev, seen>>

InvalidPlan ==
  /\ pc = "exec"
  /\ ~HasSolveDef(plan)
  /\ Retry("invalid")
  /\ UNCHANGED <<config, step, total_iterations, user_input_override,
                 last_selected_servers, final_answer, task_progress, memory,
                 calls, inputs>>

\* ------------------------------------------- interpreting the sandbox output
\* an MCP result "content=[TextContent(... "result": "..." ...)]" is cut down
\* to the quoted result; any other content is kept as it is
clean_tool_result(content) ==
  LET k == find(content, RESULT_KEY, 1)
  IN  IF contains(content, TEXT_CONTENT) /\ k # 0 /\ k < Len(content)
      THEN <<content[k + 1]>>
      ELSE content

FollowUp(content) ==
  <<"Original user task:", "q", "Your last tool produced this result:">>
    \o content \o <<"Otherwise, return the next FUNCTION_CALL.">>

\* the final answer wrapped once more, as the raw branch does
StoredFinal_wrapped(r) == WrapFinal(r)

StoredFinal(r) == r

\* result = result.strip(), for each output the sandbox may return
Stripped == [out \in SandboxOutputs |-> strip(out)]

\* the override built from an output that starts with the continuation marker
Override ==
  [out \in SandboxOutputs |->
     FollowUp(clean_tool_result(strip(split1(strip(out), FURTHER))))]

InterpretFinal ==
  /\ pc = "interpret"
  /\ LET result == Stripped[sandbox_result]
     IN  /\ startswith(result, FINAL)
         /\ task_progress' = update_subtask_status(task_progress, "success")
         /\ memory' = Append(memory, TRUE)
         /\ Return(StoredFinal(result))
  /\ EndPass("final")
  /\ UNCHANGED <<config, step, lifelines_left, total_iterations,
                 user_input_override, last_selected_servers, calls, inputs>>

InterpretFurther ==
  /\ pc = "interpret"
  /\ LET result == Stripped[sandbox_result]
     IN  /\ ~startswith(result, FINAL)
         /\ startswith(result, FURTHER)
         /\ user_input_override' = Override[sandbox_result]
  /\ Break("further")
  /\ UNCHANGED <<config, step, total_iterations, last_selected_servers,
                 final_answer, task_progress, memory, calls, inputs>>

\* a successful raw output that is stored and then retried all the same
Conclude_retry(success, result, retry_outcome) ==
  /\ task_progress' =
       update_subtask_status(task_progress,
                             IF success THEN "success" ELSE "failure")
  /\ memory' = Append(memory, success)
  /\ Retry(retry_outcome)

\* lines 171-189: the status update, the memory record, return or retry
Conclude(success, result, retry_outcome) ==
  /\ task_progress' =
       update_subtask_status(task_progress,
                             IF success THEN "success" ELSE "failure")
  /\ memory' = Append(memory, success)
  /\ IF success /\ ~contains(result, FURTHER)
     THEN /\ returned' = final_answer'
          /\ pc' = "done"
          /\ EndPass("raw")
          /\ UNCHANGED lifelines_left
     ELSE Retry(retry_outcome)

InterpretError ==
  /\ pc = "interpret"
  /\ LET result == Stripped[sandbox_result]
     IN  /\ ~startswith(result, FINAL)
         /\ ~startswith(result, FURTHER)
         /\ startswith(result, ERR)
         /\ final_answer' = ExecutionFailedAnswer
         /\ Conclude(FALSE, result, "error")
  /\ UNCHANGED <<config, step, total_iterations, user_input_override,
                 last_selected_servers, calls, inputs>>

InterpretRaw ==
  /\ pc = "interpret"
  /\ LET result == Stripped[sandbox_result]
     IN  /\ ~startswith(result, FINAL)
         /\ ~startswith(result, FURTHER)
         /\ ~startswith(result, ERR)
         /\ final_answer' = WrapFinal(result)
         /\ Conclude(TRUE, result, "raw_retry")
  /\ UNCHANGED <<config, step, total_iterations, user_input_override,
                 last_selected_servers, calls, inputs>>

\* ------------------------------------------------------------ specification
Next ==
  \/ ForNext /\ UNCHANGED rest_of_loop
  \/ WhileHead /\ UNCHANGED rest_of_loop
  \/ PerceiveCached /\ UNCHANGED rest_of_loop
  \/ \E servers \in Selections :
       PerceiveFresh(servers) /\ UNCHANGED rest_of_loop
  \/ NoTools /\ UNCHANGED rest_of_loop
  \/ ToolsSelected /\ UNCHANGED rest_of_loop
  \/ \E llm \in LLMOutputs : Plan(llm) /\ UNCHANGED rest_of_loop
  \/ \E out \in SandboxOutputs : RunSandbox(out) /\ UNCHANGED rest_of_loop
  \/ InvalidPlan /\ UNCHANGED rest_of_loop
  \/ InterpretFinal /\ UNCHANGED rest_of_loop
  \/ InterpretFurther /\ UNCHANGED rest_of_loop
  \/ InterpretError /\ UNCHANGED rest_of_loop
  \/ InterpretRaw /\ UNCHANGED rest_of_loop

Spec == Init /\ [][Next]_vars

\* every call of a collaborator returns, and the event loop keeps running run()
FairSpec == Spec /\ WF_vars(Next)

\* ================================================================ the sandbox
MaxExecutions == 2

MAX_TOOL_CALLS_PER_PLAN == 5

\* ------------------------------------------------------------- exceptions
\* an exception is of class "Exception", which "except Exception" catches,
\* or of class "BaseException" (SystemExit, KeyboardInterrupt, CancelledError)

BudgetExceeded ==
  [cls |-> "Exception",
   msg |-> <<"Exceeded max tool calls (", ToString(MAX_TOOL_CALLS_PER_PLAN),
             ") in solve() plan.">>]

NoSolveFound ==
  [cls |-> "Exception", msg |-> <<"No solve() function found in plan.">>]

SyntaxError == [cls |-> "Exception", msg |-> <<"invalid syntax">>]

ToolFailure == [cls |-> "Exception", msg |-> <<"tool failed">>]

PlanRaise(c) == [cls |-> c, msg |-> <<"raised by the plan">>]

\* f"[sandbox error: {str(e)}]"
SandboxError(e) == <<ERR, WS>> \o e.msg \o <<"]">>

\* ----------------------------------------------------------- return values
Str(t) == [type |-> "str", v |-> t]

Dict(items) == [type |-> "dict", v |-> items]

List(items) == [type |-> "list", v |-> items]

HasKey(items, k) == \E i \in 1..Len(items) : items[i][1] = k

Get(items, k) ==
  items[CHOOSE i \in 1..Len(items) :
          items[i][1] = k /\ \A j \in (i + 1)..Len(items) : items[j][1] # k]

RECURSIVE Join(_, _)
Join(texts, sep) ==
  IF texts = <<>> THEN <<>>
  ELSE IF Len(texts) = 1 THEN texts[1]
  ELSE texts[1] \o sep \o Join(Tail(texts), sep)

\* values that are not texts: an int, None, and an object that has a text
\* and no JSON form (a tool's result object)
IntValue(n) == [type |-> "int", v |-> <<ToString(n)>>]

NoneValue == [type |-> "NoneType", v |-> <<"None">>]

Object == [type |-> "object", v |-> <<"<object>">>]

\* str(value); inside a list or a dict a text is shown in quotes (repr)
RECURSIVE str(_)
RECURSIVE repr(_)
str(value) ==
  IF value.type = "list"
  THEN <<"[">>
         \o Join([i \in 1..Len(value.v) |-> repr(value.v[i])], <<",", WS>>)
         \o <<"]">>
  ELSE IF value.type = "dict"
  THEN <<"{">>
         \o Join([i \in 1..Len(value.v) |->
                    <<"'", value.v[i][1], "'", ":", WS>>
                      \o repr(value.v[i][2])],
                 <<",", WS>>)
         \o <<"}">>
  ELSE value.v

repr(value) ==
  IF value.type = "str" THEN <<"'">> \o value.v \o <<"'">> ELSE str(value)

\* json.dumps raises TypeError on a value that has no JSON form
RECURSIVE Serializable(_)
Serializable(value) ==
  IF value.type = "list"
  THEN \A i \in 1..Len(value.v) : Serializable(value.v[i])
  ELSE IF value.type = "dict"
  THEN \A i \in 1..Len(value.v) : Serializable(value.v[i][2])
  ELSE value.type # "object"

NotSerializable ==
  [cls |-> "Exception",
   msg |-> <<"Object of type object is not JSON serializable">>]

\* json.dumps of a value that has a JSON form
RECURSIVE JsonDumps(_)
JsonDumps(value) ==
  IF value.type = "list"
  THEN <<"[">>
         \o Join([i \in 1..Len(value.v) |-> JsonDumps(value.v[i])],
                 <<",", WS>>)
         \o <<"]">>
  ELSE IF value.type = "dict"
  THEN <<"{">>
         \o Join([i \in 1..Len(value.v) |->
                    <<"\"", value.v[i][1], "\"", ":", WS>>
                      \o JsonDumps(value.v[i][2])],
                 <<",", WS>>)
         \o <<"}">>
  ELSE IF value.type = "str" THEN <<"\"">> \o value.v \o <<"\"">>
  ELSE IF value.type = "NoneType" THEN <<"null">>
  ELSE value.v

\* a formatting that tests for a list first and joins without the space
Normalize_joined(result) ==
  IF result.type = "list"
  THEN Join([i \in 1..Len(result.v) |-> str(result.v[i])], <<>>)
  ELSE str(result)

\* lines 83-91, for a result whose formatting does not raise
Normalize(result) ==
  IF result.type = "dict" /\ HasKey(result.v, "result")
  THEN str(Get(result.v, "result")[2])
  ELSE IF result.type = "dict" THEN JsonDumps(result)
  ELSE IF result.type = "list"
  THEN Join([i \in 1..Len(result.v) |-> str(result.v[i])], <<WS>>)
  ELSE str(result)

\* line 87 raises
NormalizeRaises(result) ==
  /\ result.type = "dict"
  /\ ~HasKey(result.v, "result")
  /\ ~Serializable(result)

\* ------------------------------------------------------------------- plans
\* await mcp.call_tool(t, ...), inside "try: ... except Exception: pass" when
\* guarded
Call(t, guarded) == [op |-> "call", tool |-> t, guarded |-> guarded]

\* await asyncio.gather(mcp.call_tool(t1, ...), mcp.call_tool(t2, ...))
Gather(ts) == [op |-> "gather", tools |-> ts]

\* await mcp.dispatcher.call_tool(t, ...): the dispatcher held by the proxy
\* (line 51), called by the plan itself
Direct(t) == [op |-> "direct", tool |-> t, guarded |-> FALSE]

\* raise ...; sys.exit() for the class outside Exception
Raise(c) == [op |-> "raise", cls |-> c]

\* a plan: whether it compiles, the names its top level defines, the
\* statements of solve() and the value that solve() returns
PlanOf(compiles, defines, body, ret) ==
  [compiles |-> compiles, defines |-> defines, body |-> body, ret |-> ret]

SixCalls ==
  <<Call("t1", FALSE), Call("t2", FALSE), Call("t1", FALSE),
    Call("t2", FALSE), Call("t2", FALSE), Call("t1", FALSE)>>

SevenGuardedCalls ==
  <<Call("t1", TRUE), Call("t2", TRUE), Call("t1", TRUE), Call("t2", TRUE),
    Call("t2", TRUE), Call("t1", TRUE), Call("t2", TRUE)>>

SixDirectCalls ==
  <<Call("t1", FALSE), Direct("t1"), Direct("t2"), Direct("t1"),
    Direct("t2"), Direct("t2")>>

Plans ==
  { PlanOf(TRUE, {"solve"}, SixCalls, Str(<<FINAL, WS, "a">>)),
    PlanOf(TRUE, {"solve"}, SixDirectCalls, Str(<<"a">>)),
    PlanOf(TRUE, {"solve", "helper"}, SevenGuardedCalls,
           Str(<<FINAL, WS, "a">>)),
    PlanOf(TRUE, {"solve"}, <<Call("t2", FALSE), Call("t1", TRUE)>>,
           Dict(<<<<"result", Str(<<FURTHER, WS, "a">>)>>>>)),
    PlanOf(TRUE, {"solve"}, <<Gather(<<"t1", "t2">>)>>,
           List(<<Str(<<"a">>), Str(<<"b">>)>>)),
    PlanOf(TRUE, {"solve"}, <<Call("t1", FALSE), Raise("Exception")>>,
           Str(<<"a">>)),
    PlanOf(TRUE, {"solve"}, <<Call("t1", TRUE), Raise("BaseException")>>,
           Str(<<"a">>)),
    PlanOf(TRUE, {"solve"}, <<>>,
           Dict(<<<<"k", Str(<<"a">>)>>, <<"n", NoneValue>>>>)),
    PlanOf(TRUE, {"solve"}, <<>>, Dict(<<<<"k", Object>>>>)),
    PlanOf(TRUE, {"solve"}, <<>>,
           Dict(<<<<"k", Object>>,
                  <<"result", List(<<Str(<<"a">>), IntValue(1)>>)>>>>)),
    PlanOf(TRUE, {"solve"}, <<>>,
           List(<<Str(<<"a">>), IntValue(1), NoneValue>>)),
    PlanOf(TRUE, {"solve"}, <<>>, IntValue(1)),
    PlanOf(TRUE, {"helper"}, <<Call("t1", FALSE)>>, Str(<<"a">>)),
    PlanOf(TRUE, {}, <<>>, Str(<<"a">>)),
    PlanOf(FALSE, {"solve"}, <<Call("t1", FALSE)>>, Str(<<"a">>)) }

\* what dispatcher.call_tool does with a call: a result, or an exception
DispatcherOutcomes == {"result", "raise"}

\* ----------------------------------------------------------------- actions
BaseNames == {"mcp", "json", "re"}

\* the proxy made once and shared by all calls of run_python_sandbox
StartSandbox_shared(p) ==
  /\ sandbox_pc \in {"idle", "returned", "propagated"}
  /\ executions < MaxExecutions
  /\ code' = p
  /\ namespace' = BaseNames
  /\ solve_ip' = 1
  /\ invoked' = FALSE
  /\ issued' = <<>>
  /\ forwarded' = <<>>
  /\ in_progress' = 0
  /\ returned_text' = None
  /\ escaped' = None
  /\ executions' = executions + 1
  /\ forwarded_before' = forwarded_before + Len(forwarded)
  /\ direct' = 0
  /\ failed' = 0
  /\ sandbox_pc' = "exec"
  /\ UNCHANGED call_count

\* lines 38-69: a new module, a new proxy with call_count = 0, json and re
StartSandbox(p) ==
  /\ sandbox_pc \in {"idle", "returned", "propagated"}
  /\ executions < MaxExecutions
  /\ code' = p
  /\ namespace' = BaseNames
  /\ call_count' = 0
  /\ solve_ip' = 1
  /\ invoked' = FALSE
  /\ issued' = <<>>
  /\ forwarded' = <<>>
  /\ in_progress' = 0
  /\ returned_text' = None
  /\ escaped' = None
  /\ executions' = executions + 1
  /\ forwarded_before' = forwarded_before + Len(forwarded)
  /\ direct' = 0
  /\ failed' = 0
  /\ sandbox_pc' = "exec"

\* a handler for the budget failure alone
Caught_narrow(e) == e = BudgetExceeded

\* except Exception as e
Caught(e) == e.cls = "Exception"

\* lines 98-100, and what happens to an exception that the handler lets by
Fail(e) ==
  IF Caught(e)
  THEN /\ returned_text' = SandboxError(e)
       /\ sandbox_pc' = "returned"
       /\ UNCHANGED escaped
  ELSE /\ escaped' = <<e.cls>> \o e.msg
       /\ sandbox_pc' = "propagated"
       /\ UNCHANGED returned_text

\* line 72: exec(compile(code, ...), sandbox.__dict__)
ExecPlan ==
  /\ sandbox_pc = "exec"
  /\ IF code.compiles
     THEN /\ namespace' = namespace \cup code.defines
          /\ sandbox_pc' = "lookup"
          /\ UNCHANGED <<returned_text, escaped>>
     ELSE /\ Fail(SyntaxError)
          /\ UNCHANGED namespace
  /\ UNCHANGED <<code, call_count, solve_ip, invoked, issued, forwarded,
                 in_progress, executions, forwarded_before,
                 direct, failed>>

\* solve called whether or not the plan has defined it
LookupSolve_unchecked ==
  /\ sandbox_pc = "lookup"
  /\ invoked' = TRUE
  /\ sandbox_pc' = "solve"
  /\ UNCHANGED <<code, namespace, call_count, solve_ip, issued, forwarded,
                 in_progress, returned_text, escaped, executions,
                 forwarded_before,
                 direct, failed>>

\* lines 74-81: the lookup of solve, and its call
LookupSolve ==
  /\ sandbox_pc = "lookup"
  /\ IF "solve" \in namespace
     THEN /\ invoked' = TRUE
          /\ sandbox_pc' = "solve"
          /\ UNCHANGED <<returned_text, escaped>>
     ELSE /\ Fail(NoSolveFound)
          /\ UNCHANGED invoked
  /\ UNCHANGED <<code, namespace, call_count, solve_ip, issued, forwarded,
                 in_progress, executions, forwarded_before,
                 direct, failed>>

\* the statement of solve() that runs next
AtStatement(op) ==
  /\ sandbox_pc = "solve"
  /\ solve_ip <= Len(code.body)
  /\ code.body[solve_ip].op = op

\* an exception raised at a statement of solve(): swallowed by the plan's own
\* handler when the statement is guarded, and ending solve() otherwise
RaisedInPlan(e, guarded) ==
  IF guarded /\ e.cls = "Exception"
  THEN /\ solve_ip' = solve_ip + 1
       /\ sandbox_pc' = "solve"
       /\ UNCHANGED <<returned_text, escaped>>
  ELSE /\ Fail(e)
       /\ UNCHANGED solve_ip

\* a budget that lets one more call through
Exceeds_late(n) == n > MAX_TOOL_CALLS_PER_PLAN + 1

\* line 56
Exceeds(n) == n > MAX_TOOL_CALLS_PER_PLAN

\* a proxy that starts the dispatcher call and does not wait for it
CallTool_background ==
  /\ AtStatement("call")
  /\ call_count' = call_count + 1
  /\ issued' = Append(issued, code.body[solve_ip].tool)
  /\ IF Exceeds(call_count')
     THEN /\ RaisedInPlan(BudgetExceeded, code.body[solve_ip].guarded)
          /\ UNCHANGED <<forwarded, in_progress>>
     ELSE /\ forwarded' = Append(forwarded, code.body[solve_ip].tool)
          /\ in_progress' = in_progress + 1
          /\ solve_ip' = solve_ip + 1
          /\ UNCHANGED <<sandbox_pc, returned_text, escaped>>
  /\ UNCHANGED <<code, namespace, invoked, executions, forwarded_before,
                 direct, failed>>

\* lines 54-60: SandboxMCP.call_tool up to the await of the dispatcher
CallTool ==
  /\ AtStatement("call")
  /\ call_count' = call_count + 1
  /\ issued' = Append(issued, code.body[solve_ip].tool)
  /\ IF Exceeds(call_count')
     THEN /\ RaisedInPlan(BudgetExceeded, code.body[solve_ip].guarded)
          /\ UNCHANGED <<forwarded, in_progress>>
     ELSE /\ forwarded' = Append(forwarded, code.body[solve_ip].tool)
          /\ in_progress' = in_progress + 1
          /\ sandbox_pc' = "awaiting"
          /\ UNCHANGED <<solve_ip, returned_text, escaped>>
  /\ UNCHANGED <<code, namespace, invoked, executions, forwarded_before,
                 direct, failed>>

Min(a, b) == IF a < b THEN a ELSE b

Max(a, b) == IF a > b THEN a ELSE b

\* asyncio.gather of several mcp.call_tool: every call enters the proxy
\* before any dispatcher call returns; a refused call ends solve() at once
\* and leaves the accepted ones running
GatherTools ==
  /\ AtStatement("gather")
  /\ LET tools == code.body[solve_ip].tools
         accepted ==
           Min(Len(tools), Max(MAX_TOOL_CALLS_PER_PLAN - call_count, 0))
     IN  /\ call_count' = call_count + Len(tools)
         /\ issued' = issued \o tools
         /\ forwarded' = forwarded \o SubSeq(tools, 1, accepted)
         /\ in_progress' = in_progress + accepted
         /\ IF accepted < Len(tools)
            THEN /\ Fail(BudgetExceeded)
                 /\ UNCHANGED solve_ip
            ELSE /\ sandbox_pc' = "awaiting"
                 /\ UNCHANGED <<solve_ip, returned_text, escaped>>
  /\ UNCHANGED <<code, namespace, invoked, executions, forwarded_before,
                 direct, failed>>

\* a statement of the plan that awaits mcp.dispatcher.call_tool: no counter
\* is read or written on this path
DirectCall ==
  /\ AtStatement("direct")
  /\ direct' = direct + 1
  /\ in_progress' = in_progress + 1
  /\ sandbox_pc' = "awaiting"
  /\ UNCHANGED <<code, namespace, call_count, solve_ip, invoked, issued,
                 forwarded, returned_text, escaped, executions,
                 forwarded_before, failed>>

\* a proxy that gives the count back when the dispatcher raises
DispatcherReturns_refunded(o) ==
  /\ in_progress > 0
  /\ in_progress' = in_progress - 1
  /\ IF sandbox_pc = "awaiting"
     THEN IF o = "result"
          THEN /\ IF in_progress' = 0
                  THEN solve_ip' = solve_ip + 1 /\ sandbox_pc' = "solve"
                  ELSE UNCHANGED <<solve_ip, sandbox_pc>>
               /\ UNCHANGED <<returned_text, escaped>>
          ELSE IF code.body[solve_ip].op \in {"call", "direct"}
               THEN RaisedInPlan(ToolFailure, code.body[solve_ip].guarded)
               ELSE Fail(ToolFailure) /\ UNCHANGED solve_ip
     ELSE UNCHANGED <<sandbox_pc, solve_ip, returned_text, escaped>>
  /\ failed' = IF o = "raise" THEN failed + 1 ELSE failed
  /\ call_count' = IF o = "raise" THEN call_count - 1 ELSE call_count
  /\ UNCHANGED <<code, namespace, invoked, issued, forwarded, executions,
                 forwarded_before, direct>>

\* lines 60-62: dispatcher.call_tool returns or raises
DispatcherReturns(o) ==
  /\ in_progress > 0
  /\ in_progress' = in_progress - 1
  /\ IF sandbox_pc = "awaiting"
     THEN IF o = "result"
          THEN /\ IF in_progress' = 0
                  THEN solve_ip' = solve_ip + 1 /\ sandbox_pc' = "solve"
                  ELSE UNCHANGED <<solve_ip, sandbox_pc>>
               /\ UNCHANGED <<returned_text, escaped>>
          ELSE IF code.body[solve_ip].op \in {"call", "direct"}
               THEN RaisedInPlan(ToolFailure, code.body[solve_ip].guarded)
               ELSE Fail(ToolFailure) /\ UNCHANGED solve_ip
     ELSE UNCHANGED <<sandbox_pc, solve_ip, returned_text, escaped>>
  /\ failed' = IF o = "raise" THEN failed + 1 ELSE failed
  /\ UNCHANGED <<code, namespace, call_count, invoked, issued, forwarded,
                 executions, forwarded_before, direct>>

\* a raise statement of solve(), or its sys.exit()
RaiseStatement ==
  /\ AtStatement("raise")
  /\ Fail(PlanRaise(code.body[solve_ip].cls))
  /\ UNCHANGED <<code, namespace, call_count, solve_ip, invoked, issued,
                 forwarded, in_progress, executions, forwarded_before,
                 direct, failed>>

\* lines 78-91: solve() returns, and its value is made a text
ReturnResult ==
  /\ sandbox_pc = "solve"
  /\ solve_ip > Len(code.body)
  /\ IF NormalizeRaises(code.ret)
     THEN Fail(NotSerializable)
     ELSE /\ returned_text' = Normalize(code.ret)
          /\ sandbox_pc' = "returned"
          /\ UNCHANGED escaped
  /\ UNCHANGED <<code, namespace, call_count, solve_ip, invoked, issued,
                 forwarded, in_progress, executions, forwarded_before,
                 direct, failed>>

SandboxInit ==
  /\ Init
  /\ max_steps = MaxSteps
  /\ max_lifelines_per_step = MaxLifelines

rest_of_sandbox ==
  <<vars, driver_vars, search_vars, perception_vars, limiter_vars>>

SandboxNext ==
  \/ \E p \in Plans : StartSandbox(p) /\ UNCHANGED rest_of_sandbox
  \/ ExecPlan /\ UNCHANGED rest_of_sandbox
  \/ LookupSolve /\ UNCHANGED rest_of_sandbox
  \/ CallTool /\ UNCHANGED rest_of_sandbox
  \/ GatherTools /\ UNCHANGED rest_of_sandbox
  \/ DirectCall /\ UNCHANGED rest_of_sandbox
  \/ \E o \in DispatcherOutcomes :
       DispatcherReturns(o) /\ UNCHANGED rest_of_sandbox
  \/ RaiseStatement /\ UNCHANGED rest_of_sandbox
  \/ ReturnResult /\ UNCHANGED rest_of_sandbox

SandboxSpec == SandboxInit /\ [][SandboxNext]_sandbox_vars

\* =========================================================== history cache
\* ConversationHistory of agent.py; a query is a text of characters
MaxTurns == 2

QUOTE == "\""
BACKSLASH == "\\"

lower_char(c) ==
  CASE c = "A" -> "a" [] c = "B" -> "b" [] c = "C" -> "c" [] c = "D" -> "d"
    [] c = "E" -> "e" [] c = "N" -> "n" [] c = "Y" -> "y" [] OTHER -> c

\* str.lower()
lower(t) == [i \in 1..Len(t) |-> lower_char(t[i])]

\* a[i .. i+k-1] equals b[j .. j+k-1]
SameBlock(a, b, i, j, k) == \A d \in 0..(k - 1) : a[i + d] = b[j + d]

\* SequenceMatcher.find_longest_match on a[alo..ahi] and b[blo..bhi]: the
\* longest common block, the one that starts earliest in a and, among those,
\* earliest in b; <<i, j, 0>> when there is none
find_longest_match(a, b, alo, ahi, blo, bhi) ==
  LET blocks == {m \in (alo..ahi) \X (blo..bhi) \X (1..(ahi - alo + 1)) :
                   /\ m[1] + m[3] - 1 <= ahi
                   /\ m[2] + m[3] - 1 <= bhi
                   /\ SameBlock(a, b, m[1], m[2], m[3])}
      longest == {m \in blocks : \A n \in blocks : n[3] <= m[3]}
      first_a == {m \in longest : \A n \in longest : m[1] <= n[1]}
  IN  IF blocks = {} THEN <<alo, blo, 0>>
      ELSE CHOOSE m \in first_a : \A n \in first_a : m[2] <= n[2]

\* the sum of the sizes of SequenceMatcher.get_matching_blocks: the longest
\* block, then the same to its left and to its right
RECURSIVE matches(_, _, _, _, _, _)
matches(a, b, alo, ahi, blo, bhi) ==
  LET m == find_longest_match(a, b, alo, ahi, blo, bhi)
  IN  IF m[3] = 0 THEN 0
      ELSE m[3] + matches(a, b, alo, m[1] - 1, blo, m[2] - 1)
                + matches(a, b, m[1] + m[3], ahi, m[2] + m[3], bhi)

\* SequenceMatcher.ratio(): 2.0 * matches / length, 1.0 for two empty texts;
\* a ratio is a fraction <<numerator, denominator>>
ratio(a, b) ==
  IF Len(a) + Len(b) = 0 THEN <<1, 1>>
  ELSE <<2 * matches(a, b, 1, Len(a), 1, Len(b)), Len(a) + Len(b)>>

Greater(x, y) == x[1] * y[2] > y[1] * x[2]
AtLeast(x, y) == x[1] * y[2] >= y[1] * x[2]

similarity(str1, str2) == ratio(strip(lower(str1)), strip(lower(str2)))

ExceedsBest_or_equal(score, best_score) == AtLeast(score, best_score)

\* score > best_score
ExceedsBest(score, best_score) == Greater(score, best_score)

\* the for loop of search_similar from entry i on
RECURSIVE scan(_, _, _, _, _)
scan(entries, query, threshold, i, best) ==
  IF i > Len(entries) THEN best
  ELSE LET score == similarity(query, entries[i].query)
       IN  IF ExceedsBest(score, best.score) /\ AtLeast(score, threshold)
           THEN scan(entries, query, threshold, i + 1,
                     [match |-> entries[i], score |-> score])
           ELSE scan(entries, query, threshold, i + 1, best)

\* NoEntry stands for None
search_similar(entries, query, threshold) ==
  scan(entries, query, threshold, 1,
       [match |-> NoEntry, score |-> <<0, 1>>]).match

DEFAULT_THRESHOLD == <<3, 4>>

\* datetime.datetime.now().isoformat()
isoformat(c) == <<ToString(c)>>

\* ------------------------------------------------------------------ json
KEY_QUERY == "\"query\":"
KEY_ANSWER == "\"answer\":"
KEY_TIMESTAMP == "\"timestamp\":"

RECURSIVE escape(_)
escape(t) ==
  IF t = <<>> THEN <<>>
  ELSE IF Head(t) \in {QUOTE, BACKSLASH}
       THEN <<BACKSLASH, Head(t)>> \o escape(Tail(t))
       ELSE <<Head(t)>> \o escape(Tail(t))

json_string(t) == <<QUOTE>> \o escape(t) \o <<QUOTE>>

json_entry(e) ==
  <<"{", KEY_QUERY>> \o json_string(e.query) \o <<",", KEY_ANSWER>>
    \o json_string(e.answer) \o <<",", KEY_TIMESTAMP>>
    \o json_string(e.timestamp) \o <<"}">>

RECURSIVE json_entries(_)
json_entries(es) ==
  IF es = <<>> THEN <<>>
  ELSE IF Len(es) = 1 THEN json_entry(es[1])
  ELSE json_entry(es[1]) \o <<",">> \o json_entries(Tail(es))

\* json.dump(self.history, f, indent=2, ensure_ascii=False), without the
\* indentation
json_dump(es) == <<"[">> \o json_entries(es) \o <<"]">>

Failed == [ok |-> FALSE, value |-> <<>>, next |-> 0]

\* the characters of a string from position i up to its closing quote
RECURSIVE read_chars(_, _, _)
read_chars(c, i, acc) ==
  IF i > Len(c) THEN Failed
  ELSE IF c[i] = QUOTE THEN [ok |-> TRUE, value |-> acc, next |-> i + 1]
  ELSE IF c[i] = BACKSLASH
       THEN IF i + 1 > Len(c) THEN Failed
            ELSE read_chars(c, i + 2, Append(acc, c[i + 1]))
       ELSE read_chars(c, i + 1, Append(acc, c[i]))

\* the value of key at position i: a key and a string
read_member(c, i, key) ==
  IF i + 1 <= Len(c) /\ c[i] = key /\ c[i + 1] = QUOTE
  THEN read_chars(c, i + 2, <<>>)
  ELSE Failed

Is(c, i, token) == i >= 1 /\ i <= Len(c) /\ c[i] = token

\* an object with the three members of an entry, from position i
read_entry(c, i) ==
  LET q == IF Is(c, i, "{") THEN read_member(c, i + 1, KEY_QUERY)
           ELSE Failed
      a == IF q.ok /\ Is(c, q.next, ",")
           THEN read_member(c, q.next + 1, KEY_ANSWER) ELSE Failed
      t == IF a.ok /\ Is(c, a.next, ",")
           THEN read_member(c, a.next + 1, KEY_TIMESTAMP) ELSE Failed
  IN  IF t.ok /\ Is(c, t.next, "}")
      THEN [ok |-> TRUE, next |-> t.next + 1,
            value |-> [query |-> q.value, answer |-> a.value,
                       timestamp |-> t.value]]
      ELSE [ok |-> FALSE, next |-> 0, value |-> NoEntry]

\* the entries of an array from position i up to the end of the document
RECURSIVE read_entries(_, _, _)
read_entries(c, i, acc) ==
  LET e == read_entry(c, i)
  IN  IF ~e.ok THEN Failed
      ELSE IF Is(c, e.next, "]") /\ e.next = Len(c)
      THEN [ok |-> TRUE, value |-> Append(acc, e.value), next |-> e.next + 1]
      ELSE IF Is(c, e.next, ",")
      THEN read_entries(c, e.next + 1, Append(acc, e.value))
      ELSE Failed

\* json.load on the documents of StoreFiles: an array of entries, an empty
\* object, null, or a document that is not JSON
json_load(c) ==
  IF c = <<"null">>
  THEN [ok |-> TRUE, value |-> [shape |-> "null", entries |-> <<>>]]
  ELSE IF c = <<"{", "}">>
  THEN [ok |-> TRUE, value |-> [shape |-> "dict", entries |-> <<>>]]
  ELSE IF c = <<"[", "]">>
  THEN [ok |-> TRUE, value |-> [shape |-> "list", entries |-> <<>>]]
  ELSE IF Is(c, 1, "[")
  THEN LET r == read_entries(c, 2, <<>>)
       IN  [ok |-> r.ok, value |-> [shape |-> "list", entries |-> r.value]]
  ELSE [ok |-> FALSE, value |-> [shape |-> "list", entries |-> <<>>]]

EmptyList == [shape |-> "list", entries |-> <<>>]

load_nothing(file) == EmptyList

\* ConversationHistory._load
load(file) ==
  IF file.exists
  THEN IF file.readable /\ json_load(file.content).ok
       THEN json_load(file.content).value
       ELSE EmptyList
  ELSE EmptyList

MaxStored == 2

\* the stores of at most n entries over a set of entries
RECURSIVE Stores(_, _)
Stores(entries, n) ==
  IF n = 0 THEN {<<>>}
  ELSE LET shorter == Stores(entries, n - 1)
       IN  shorter \cup {Append(s, e) : s \in shorter, e \in entries}

ABCD == <<"a", "b", "c", "d">>
ABCE == <<"a", "b", "c", "e">>
TYPED_ABCD == <<WS, "A", "B", "C", "D">>
XY == <<"x", "y">>

Entry(query, answer, c) ==
  [query |-> query, answer |-> answer, timestamp |-> isoformat(c)]

\* the queries, the entries and the thresholds search_similar is tried on
Queries == {ABCD, ABCE, TYPED_ABCD, XY, <<>>}
StoredEntries ==
  { Entry(ABCD, <<"a">>, 0), Entry(ABCE, <<"e">>, 0),
    Entry(TYPED_ABCD, <<"b">>, 0), Entry(XY, <<"x">>, 0),
    Entry(<<WS>>, <<>>, 0) }
Thresholds == {<<0, 1>>, <<1, 2>>, DEFAULT_THRESHOLD, <<1, 1>>}

\* lines 49-63
Search(entries, query, threshold) ==
  /\ search_pc = "idle"
  /\ stored' = entries
  /\ query_given' = query
  /\ threshold_given' = threshold
  /\ found' = search_similar(entries, query, threshold)
  /\ stored_after' = entries
  /\ search_pc' = "returned"

rest_of_search ==
  <<vars, sandbox_vars, driver_vars, perception_vars, limiter_vars>>

SearchInit == SandboxInit

SearchNext ==
  \E entries \in Stores(StoredEntries, MaxStored), query \in Queries,
     threshold \in Thresholds :
    Search(entries, query, threshold) /\ UNCHANGED rest_of_search

SearchSpec == SearchInit /\ [][SearchNext]_search_vars

\* "w" mode: the file as open and json.dump leave it. The write succeeds, or
\* open fails and the file stays as it was, or the dump fails after open has
\* emptied the file and before the end is written
WriteOutcomes == {"written", "refused", "torn"}

written(file, entries, outcome) ==
  LET text == json_dump(entries)
  IN  CASE outcome = "written" ->
             [exists |-> TRUE, readable |-> TRUE, content |-> text]
        [] outcome = "refused" -> file
        [] outcome = "torn" ->
             [exists |-> TRUE, readable |-> TRUE,
              content |-> SubSeq(text, 1, Len(text) - 1)]

\* ConversationHistory._save: a failed write is logged and nothing more
save(file, entries, outcome) == written(file, entries, outcome)

\* an add that keeps the new entry only
add_replacing(query, answer, outcome) ==
  LET entry == [query |-> query, answer |-> answer,
                timestamp |-> isoformat(clock)]
  IN  /\ history' = [history EXCEPT !.entries = <<entry>>]
      /\ store_file' = save(store_file, <<entry>>, outcome)
      /\ clock' = clock + 1

\* ConversationHistory.add on a history that is a list
add(query, answer, outcome) ==
  LET entry == [query |-> query, answer |-> answer,
                timestamp |-> isoformat(clock)]
      appended == Append(history.entries, entry)
  IN  /\ history' = [history EXCEPT !.entries = appended]
      /\ store_file' = save(store_file, appended, outcome)
      /\ clock' = clock + 1

\* ============================================================== run driver
\* main() of agent.py
MaxLaunches == 2

TYPED_EXIT == <<"e", "x", "i", "t">>
TYPED_NEW == <<"N", "e", "w">>

\* what the user types at the prompt
UserInputs == {TYPED_ABCD, XY, TYPED_EXIT, TYPED_NEW}

\* what the user types when asked whether to use the cached answer
ConfirmAnswers == {<<"y">>, <<WS, "Y", WS>>, <<"n">>, <<"y", "e", "s">>}

File(content) == [exists |-> TRUE, readable |-> TRUE, content |-> content]

\* the store file that main() finds when it is first started
StoreFiles ==
  { [exists |-> FALSE, readable |-> FALSE, content |-> <<>>],
    [exists |-> TRUE, readable |-> FALSE,
     content |-> json_dump(<<Entry(ABCD, <<"a">>, 0)>>)],
    File(<<"[", "{">>),
    File(<<"null">>),
    File(<<"{", "}">>),
    File(json_dump(<<>>)),
    File(json_dump(<<Entry(ABCE, <<"e">>, 0),
                     Entry(ABCD, <<"a">>, 0),
                     Entry(<<"A", "B", "C", "D">>, <<"b">>, 0)>>)) }

\* the texts that run() returns: the two sentinels, a sandbox output that
\* starts with the final marker, a raw output behind the final marker
RunResults ==
  {MaxIterationsAnswer, MaxStepsAnswer}
    \cup {Stripped[out] : out \in {o \in SandboxOutputs :
                                     startswith(Stripped[o], FINAL)}}
    \cup {WrapFinal(Stripped[out]) :
            out \in {o \in SandboxOutputs :
                       /\ ~startswith(Stripped[o], FINAL)
                       /\ ~startswith(Stripped[o], FURTHER)
                       /\ ~startswith(Stripped[o], ERR)
                       /\ ~contains(Stripped[o], FURTHER)}}

Terminal == {"exited", "stopped", "crashed"}

\* main() up to its first prompt, with the store file it finds
StartMain(file) ==
  /\ store_file' = file
  /\ history' = load(file)
  /\ current_session' = NoSession
  /\ driver_pc' = "prompt"
  /\ launched' = launched + 1
  /\ turn_input' = <<>>
  /\ cached' = NoEntry
  /\ use_cached' = <<>>
  /\ context_session' = NoSession
  /\ run_result' = None
  /\ records' = 0
  /\ loop_runs' = 0
  /\ stopped_at' = "nowhere"
  /\ crash' = "nothing"
  /\ UNCHANGED <<clock, next_session, turns>>

\* the first start of the program
Launch(file) ==
  /\ driver_pc = "idle"
  /\ StartMain(file)

\* the program is started again after it has ended, on the file it left
Relaunch ==
  /\ driver_pc \in Terminal
  /\ launched < MaxLaunches
  /\ StartMain(store_file)

EXIT_COMMAND == <<"e", "x", "i", "t">>
NEW_COMMAND == <<"n", "e", "w">>

\* lines 99-115 up to the question about the cached answer
ReadInput(inp) ==
  /\ driver_pc = "prompt"
  /\ turns < MaxTurns
  /\ turns' = turns + 1
  /\ turn_input' = inp
  /\ use_cached' = <<>>
  /\ run_result' = None
  /\ records' = 0
  /\ loop_runs' = 0
  /\ IF lower(inp) = EXIT_COMMAND
     THEN /\ driver_pc' = "exited"
          /\ stopped_at' = "prompt"
          /\ UNCHANGED <<current_session, cached, crash>>
     ELSE IF lower(inp) = NEW_COMMAND
     THEN /\ current_session' = NoSession
          /\ UNCHANGED <<driver_pc, stopped_at, cached, crash>>
     ELSE IF history.shape = "null"
     THEN /\ driver_pc' = "crashed"
          /\ stopped_at' = "prompt"
          /\ crash' = "search_similar"
          /\ UNCHANGED <<current_session, cached>>
     ELSE /\ cached' =
               search_similar(history.entries, inp, DEFAULT_THRESHOLD)
          /\ driver_pc' = IF cached' # NoEntry THEN "confirm" ELSE "start"
          /\ UNCHANGED <<current_session, stopped_at, crash>>
  /\ UNCHANGED <<history, store_file, clock, next_session, context_session,
                 launched>>

Accepts_never(answer) == FALSE

\* use_cached == 'y'
Accepts(answer) == answer = <<"y">>

\* lines 112-115
Confirm(answer) ==
  /\ driver_pc = "confirm"
  /\ use_cached' = strip(lower(answer))
  /\ driver_pc' = IF Accepts(use_cached') THEN "prompt" ELSE "start"
  /\ UNCHANGED <<history, store_file, clock, current_session, next_session,
                 turn_input, cached, context_session, run_result, records,
                 loop_runs, turns, stopped_at, crash, launched>>

\* AgentContext: the session identifier it is given or, without one, a new
\* one
session_id(given) == IF given # NoSession THEN given ELSE next_session

\* a driver that hands no session identifier to AgentContext
StartRun_fresh ==
  /\ driver_pc = "start"
  /\ context_session' = session_id(NoSession)
  /\ current_session' =
       IF current_session = NoSession THEN context_session'
       ELSE current_session
  /\ next_session' = next_session + 1
  /\ loop_runs' = loop_runs + 1
  /\ driver_pc' = "running"
  /\ UNCHANGED <<history, store_file, clock, turn_input, cached, use_cached,
                 run_result, records, turns, stopped_at, crash, launched>>

\* lines 118-128 up to the call of run()
StartRun ==
  /\ driver_pc = "start"
  /\ context_session' = session_id(current_session)
  /\ current_session' =
       IF current_session = NoSession THEN context_session'
       ELSE current_session
  /\ next_session' =
       IF current_session = NoSession THEN next_session + 1
       ELSE next_session
  /\ loop_runs' = loop_runs + 1
  /\ driver_pc' = "running"
  /\ UNCHANGED <<history, store_file, clock, turn_input, cached, use_cached,
                 run_result, records, turns, stopped_at, crash,
                 launched>>

FinalPart_raw(answer) == answer

\* answer.split('FINAL_ANSWER:')[1].strip()
FinalPart(answer) == strip(split1(answer, FINAL))

\* lines 128-150: run() has returned
RunReturns(answer, outcome) ==
  /\ driver_pc = "running"
  /\ run_result' = answer
  /\ IF contains(answer, FINAL)
     THEN /\ records' = records + 1
          /\ IF history.shape = "list"
             THEN /\ add(turn_input, FinalPart(answer), outcome)
                  /\ driver_pc' = "prompt"
                  /\ UNCHANGED <<stopped_at, crash>>
             ELSE /\ driver_pc' = "crashed"
                  /\ stopped_at' = "running"
                  /\ crash' = "add"
                  /\ UNCHANGED <<history, store_file, clock>>
          /\ UNCHANGED turn_input
     ELSE IF contains(answer, FURTHER)
     THEN /\ turn_input' = strip(split1(answer, FURTHER))
          /\ driver_pc' = "start"
          /\ UNCHANGED <<history, store_file, clock, records, stopped_at,
                         crash>>
     ELSE /\ driver_pc' = "prompt"
          /\ UNCHANGED <<history, store_file, clock, records, stopped_at,
                         crash, turn_input>>
  /\ UNCHANGED <<current_session, next_session, cached, use_cached,
                 context_session, loop_runs, turns, launched>>

\* run() raises: a prompt file that cannot be read or formatted raises in
\* run_perception and generate_plan before their try, and run() has no
\* handler; main() handles KeyboardInterrupt only
RunRaises ==
  /\ driver_pc = "running"
  /\ driver_pc' = "crashed"
  /\ stopped_at' = "running"
  /\ crash' = "run"
  /\ UNCHANGED <<history, store_file, clock, current_session, next_session,
                 turn_input, cached, use_cached, context_session, run_result,
                 records, loop_runs, turns, launched>>

\* an interrupt that lets a run in flight return and record its answer
Interrupt_deferred ==
  /\ driver_pc \in {"prompt", "confirm", "start", "running"}
  /\ driver_pc' = "stopped"
  /\ stopped_at' = driver_pc
  /\ IF driver_pc = "running" /\ history.shape = "list"
     THEN /\ run_result' = <<FINAL, WS, "a">>
          /\ records' = records + 1
          /\ add(turn_input, FinalPart(run_result'), "written")
     ELSE UNCHANGED <<history, store_file, clock, run_result, records>>
  /\ UNCHANGED <<current_session, next_session, turn_input, cached,
                 use_cached, context_session, loop_runs, turns, crash,
                 launched>>

\* KeyboardInterrupt: raised wherever main() is, handled at line 151
Interrupt ==
  /\ driver_pc \in {"prompt", "confirm", "start", "running"}
  /\ driver_pc' = "stopped"
  /\ stopped_at' = driver_pc
  /\ UNCHANGED <<history, store_file, clock, current_session, next_session,
                 turn_input, cached, use_cached, context_session, run_result,
                 records, loop_runs, turns, crash, launched>>

DriverInit == SandboxInit

rest_of_driver ==
  <<vars, sandbox_vars, search_vars, perception_vars, limiter_vars>>

DriverNext ==
  \/ \E f \in StoreFiles : Launch(f) /\ UNCHANGED rest_of_driver
  \/ Relaunch /\ UNCHANGED rest_of_driver
  \/ \E inp \in UserInputs : ReadInput(inp) /\ UNCHANGED rest_of_driver
  \/ \E answer \in ConfirmAnswers :
       Confirm(answer) /\ UNCHANGED rest_of_driver
  \/ StartRun /\ UNCHANGED rest_of_driver
  \/ \E answer \in RunResults, outcome \in WriteOutcomes :
       RunReturns(answer, outcome) /\ UNCHANGED rest_of_driver
  \/ RunRaises /\ UNCHANGED rest_of_driver
  \/ Interrupt /\ UNCHANGED rest_of_driver

DriverSpec == DriverInit /\ [][DriverNext]_driver_vars

\* ============================================================== perception
\* extract_perception of perception.py

\* the server lists the call is tried on
ServerLists ==
  { <<>>, <<"s1">>, <<"s2">>, <<"s3">>, <<"s1", "s2">>, <<"s1", "s3">>,
    <<"s2", "s3">>, <<"s1", "s2", "s3">> }

Output(kind, fields, selected) ==
  [kind |-> kind, fields |-> fields, selected |-> selected]

\* what the model call does: it raises, or it answers with a text that
\* holds no JSON, with JSON that is no object (null, a list), or with an
\* object that has some of the fields and a selection
RawOutputs ==
  { Output("raise", {}, <<>>),
    Output("text", {}, <<>>),
    Output("null", {}, <<>>),
    Output("list", {}, <<>>),
    Output("dict", {"intent", "selected_servers"}, <<"s1">>),
    Output("dict", {"intent", "selected_servers"}, <<>>),
    Output("dict", {"intent"}, <<>>),
    Output("dict", {"selected_servers"}, <<"s2">>),
    Output("dict", {}, <<>>) }

\* a fallback that selects nothing
Fallback_none(servers) == [intent |-> "unknown", selected_servers |-> <<>>]

\* lines 87-97: the result of the handler
Fallback(servers) == [intent |-> "unknown", selected_servers |-> servers]

\* lines 76-78: extract_json_block and json.loads raise on a text without
\* JSON
ParseRaises(output) == output.kind = "text"

\* lines 80-82: the membership test raises on null, the assignment on a list
DefaultRaises(output) == output.kind \in {"null", "list"}

\* line 85: PerceptionResult requires intent
ValidationRaises(output) == "intent" \notin output.fields

\* lines 49-69: the prompt is built
StartPerception(servers) ==
  /\ perception_pc = "idle"
  /\ available' = servers
  /\ perception_pc' = "calling"
  /\ UNCHANGED <<raw, perceived>>

\* lines 72-73 and 87-97: the model call returns or raises
ModelAnswers(output) ==
  /\ perception_pc = "calling"
  /\ raw' = output
  /\ IF output.kind = "raise"
     THEN perceived' = Fallback(available) /\ perception_pc' = "returned"
     ELSE perception_pc' = "parsing" /\ UNCHANGED perceived
  /\ UNCHANGED available

\* lines 76-97: parsing, the default for a missing selection, validation
ParseOutput ==
  /\ perception_pc = "parsing"
  /\ perceived' =
       IF ParseRaises(raw) \/ DefaultRaises(raw) \/ ValidationRaises(raw)
       THEN Fallback(available)
       ELSE [intent |-> "given",
             selected_servers |->
               IF "selected_servers" \in raw.fields THEN raw.selected
               ELSE available]
  /\ perception_pc' = "returned"
  /\ UNCHANGED <<available, raw>>

rest_of_perception ==
  <<vars, sandbox_vars, driver_vars, search_vars, limiter_vars>>

PerceptionInit == SandboxInit

PerceptionNext ==
  \/ \E servers \in ServerLists :
       StartPerception(servers) /\ UNCHANGED rest_of_perception
  \/ \E output \in RawOutputs :
       ModelAnswers(output) /\ UNCHANGED rest_of_perception
  \/ ParseOutput /\ UNCHANGED rest_of_perception

PerceptionSpec == PerceptionInit /\ [][PerceptionNext]_perception_vars

\* ============================================================ rate limiter
\* RateLimiter of mcp_server_3.py; time is counted in seconds
Minute == 60

\* the clock moves in steps of Tick seconds, up to MaxClock
Tick == 20

MaxClock == 120

MaxCalls == 4

\* the limits a RateLimiter is constructed with
Limits == {1, 2}

\* lines 36-38: the requests less than a minute old, in their order
Prune(reqs, now) == SelectSeq(reqs, LAMBDA req : now - req < Minute)

\* lines 29-31
Construct(r) ==
  /\ limiter_pc = "none"
  /\ limiter_pc' = "made"
  /\ requests_per_minute' = r
  /\ requests' = <<>>
  /\ UNCHANGED <<seconds, waiting, completed, started>>

\* lines 33-46, up to the sleep of line 44 when the call has to wait and up
\* to the return when it has not
acquire(t) ==
  /\ limiter_pc = "made"
  /\ waiting[t] = Awake
  /\ started < MaxCalls
  /\ started' = started + 1
  /\ LET now == seconds
         kept == Prune(requests, now)
         full == Len(kept) >= requests_per_minute
         wait_time == IF full THEN Minute - (now - kept[1]) ELSE 0
     IN  IF full /\ wait_time > 0
         THEN /\ requests' = kept
              /\ waiting' =
                   [waiting EXCEPT ![t] =
                      [now |-> now, wake |-> seconds + wait_time]]
              /\ UNCHANGED completed
         ELSE /\ requests' = Append(kept, now)
              /\ completed' = Append(completed, seconds)
              /\ UNCHANGED waiting
  /\ UNCHANGED <<limiter_pc, requests_per_minute, seconds>>

\* lines 44-46: the sleep is over; the call records the time at which it
\* entered, whatever the list holds by now, and returns
WakeUp(t) ==
  /\ waiting[t] # Awake
  /\ seconds >= waiting[t].wake
  /\ requests' = Append(requests, waiting[t].now)
  /\ completed' = Append(completed, seconds)
  /\ waiting' = [waiting EXCEPT ![t] = Awake]
  /\ UNCHANGED <<limiter_pc, requests_per_minute, seconds, started>>

\* time passes
Advance ==
  /\ seconds + Tick <= MaxClock
  /\ seconds' = seconds + Tick
  /\ UNCHANGED <<limiter_pc, requests_per_minute, requests, waiting,
                 completed, started>>

rest_of_limiter ==
  <<vars, sandbox_vars, driver_vars, search_vars, perception_vars>>

LimiterInit == SandboxInit

LimiterNext ==
  \/ \E r \in Limits : Construct(r) /\ UNCHANGED rest_of_limiter
  \/ \E t \in Tasks : acquire(t) /\ UNCHANGED rest_of_limiter
  \/ \E t \in Tasks : WakeUp(t) /\ UNCHANGED rest_of_limiter
  \/ Advance /\ UNCHANGED rest_of_limiter

LimiterSpec == LimiterInit /\ [][LimiterNext]_limiter_vars

\* ===================================================================== claims
Running == {"perceive", "tools", "plan", "exec", "interpret"}

LastStatus(log) == IF log = <<>> THEN "none" ELSE log[Len(log)].status

PcRank ==
  CASE pc = "while" -> 6
    [] pc = "perceive" -> 5
    [] pc = "tools" -> 4
    [] pc = "plan" -> 3
    [] pc = "exec" -> 2
    [] pc = "interpret" -> 1
    [] OTHER -> 0

\* steps still to come, then lifelines still to spend, then the way left in
\* the pass: a measure in the naturals that is 0 once run() has returned
Variant ==
  IF pc = "done" THEN 0
  ELSE 1 + ((max_steps - step) * (max_lifelines_per_step + 2)
            + (lifelines_left + 1)) * 7 + PcRank

\* C1: run() always terminates.  Whatever the collaborators return, run()
\* reaches its return, and it does so after finitely many passes: every step
\* that run() takes lowers a measure that is a natural number.
C1_Terminates ==
  /\ <>(pc = "done")
  /\ [](Variant >= 0)
  /\ [][Variant' < Variant]_vars

C1_Witness ==
  /\ pc = "done"
  /\ returned = MaxStepsAnswer
  /\ total_iterations >= 3
  /\ {"further", "invalid"} \subseteq seen

\* C2: the pass counter only grows, by one per pass, and is checked before
\* any work of the pass: a pass that is perceiving, planning or executing has
\* a count of at most 2 x max_steps, and the pass that raises the count to
\* 2 x max_steps + 1 sets the sentinel and returns without calling anything.
C2_GuardFirst ==
  /\ [](pc \in Running => total_iterations <= 2 * max_steps)
  /\ [](total_iterations <= 2 * max_steps + 1)
  /\ [][total_iterations' \in {total_iterations, total_iterations + 1}]_vars
  /\ [][(total_iterations' = 2 * max_steps + 1
           /\ total_iterations = 2 * max_steps)
        => /\ pc = "while" /\ pc' = "done"
           /\ final_answer' = MaxIterationsAnswer
           /\ returned' = MaxIterationsAnswer
           /\ calls' = calls]_vars

C2_Witness ==
  /\ returned = MaxIterationsAnswer
  /\ total_iterations = 2 * max_steps + 1
  /\ calls.perception = 2 * max_steps

OnlyInvalidPlans == seen \subseteq {"invalid"}

\* C3 as stated: with only invalid plans, run() ends after exactly
\* N x (L+1) passes with "Max steps reached".
C3_Original ==
  (pc = "done" /\ OnlyInvalidPlans)
    => /\ total_iterations = max_steps * (max_lifelines_per_step + 1)
       /\ returned = MaxStepsAnswer

\* C3, amended: with only invalid plans, run() ends after N x (L+1) passes
\* with "Max steps reached" when N x (L+1) <= 2N; otherwise the guard ends it
\* at pass 2N + 1 with "Max iterations reached".
C3_InvalidPlansEnd ==
  (pc = "done" /\ OnlyInvalidPlans)
    => IF max_steps * (max_lifelines_per_step + 1) <= 2 * max_steps
       THEN /\ total_iterations = max_steps * (max_lifelines_per_step + 1)
            /\ returned = MaxStepsAnswer
       ELSE /\ total_iterations = 2 * max_steps + 1
            /\ returned = MaxIterationsAnswer

C3_Witness ==
  /\ pc = "done"
  /\ seen = {"invalid"}
  /\ max_lifelines_per_step = 1
  /\ max_steps = 2
  /\ total_iterations = 4

\* C4 as stated: when every plan execution returns the continuation marker,
\* run() ends at pass 2N + 1 with "Max iterations reached".
C4_Original ==
  (pc = "done" /\ seen = {"further"})
    => /\ total_iterations = 2 * max_steps + 1
       /\ returned = MaxIterationsAnswer

\* C5 as stated: the pass after a continuation runs with the same step value.
C5_Original ==
  (pc \in Running /\ prev.outcome = "further") => step = prev.step

\* C6 as stated: a plan without a solve definition that carries the final
\* marker ends run() in that pass: no sandbox call, no lifeline taken, the
\* answer stored and returned.
C6_Original ==
  [][(pc = "exec" /\ ~HasSolveDef(plan) /\ HasFinalMarker(plan))
     => /\ pc' = "done"
        /\ final_answer' # None
        /\ returned' = final_answer'
        /\ lifelines_left' = lifelines_left
        /\ calls'.sandbox = calls.sandbox]_vars

\* C7 as stated: a sandbox output that starts with the final marker is
\* logged as success, stored as it is and returned in the same pass.
C7_Original ==
  [][(pc = "interpret" /\ startswith(sandbox_result, FINAL))
     => /\ LastStatus(task_progress') = "success"
        /\ final_answer' = sandbox_result
        /\ returned' = sandbox_result
        /\ pc' = "done"]_vars

\* C7, amended: a sandbox output that starts with the final marker is logged
\* as success, stored with the white space at its ends removed, and returned
\* in the same pass; after the return nothing happens in that run: no pass,
\* no perception, no plan and no sandbox call.
C7_FinalReturns ==
  /\ [][(pc = "interpret" /\ startswith(sandbox_result, FINAL))
        => /\ LastStatus(task_progress') = "success"
           /\ final_answer' = strip(sandbox_result)
           /\ returned' = strip(sandbox_result)
           /\ total_iterations' = total_iterations
           /\ calls' = calls
           /\ pc' = "done"]_vars
  /\ [][pc # "done"]_vars

C7_Witness ==
  /\ pc = "done"
  /\ prev.outcome = "final"
  /\ returned = <<FINAL, WS, "a">>
  /\ LastStatus(task_progress) = "success"

\* C8: a sandbox output that is an Error is logged as failure, sets the
\* "Execution failed" answer and takes exactly one lifeline; run() goes on
\* with another pass of the same step if and only if the budget is still
\* >= 0, and otherwise leaves the step for the next step value.
C8_ErrorRetries ==
  /\ [][(pc = "interpret" /\ startswith(sandbox_result, ERR))
        => /\ LastStatus(task_progress') = "failure"
           /\ final_answer' = ExecutionFailedAnswer
           /\ lifelines_left' = lifelines_left - 1
           /\ step' = step
           /\ returned' = None
           /\ pc' = "while"]_vars
  /\ [][(pc = "while" /\ prev.outcome = "error")
        => IF lifelines_left >= 0
           THEN /\ total_iterations' = total_iterations + 1
                /\ step' = step
                /\ pc' \in {"perceive", "done"}
           ELSE /\ total_iterations' = total_iterations
                /\ pc' = "for"]_vars
  /\ [][(pc = "for" /\ prev.outcome = "error")
        => \/ step' = step + 1 /\ pc' = "while"
           \/ step + 1 = max_steps /\ returned' = MaxStepsAnswer]_vars
  /\ [](pc \in Running /\ prev.outcome = "error"
        => step = prev.step \/ (step = prev.step + 1 /\
             lifelines_left = max_lifelines_per_step))

C8_Witness ==
  /\ pc = "perceive"
  /\ prev.outcome = "error"
  /\ step = prev.step
  /\ final_answer = ExecutionFailedAnswer
  /\ LastStatus(task_progress) = "failure"

\* C9: a plan without a solve definition never reaches the sandbox, takes
\* exactly one lifeline, and the next pass, if the budget is still >= 0,
\* runs in the same step.
C9_InvalidPlanRetries ==
  /\ [][(pc = "exec" /\ ~HasSolveDef(plan))
        => /\ calls'.sandbox = calls.sandbox
           /\ lifelines_left' = lifelines_left - 1
           /\ step' = step
           /\ pc' = "while"]_vars
  /\ [][calls'.sandbox # calls.sandbox => HasSolveDef(plan)]_vars
  /\ [][(pc = "while" /\ prev.outcome = "invalid" /\ lifelines_left >= 0)
        => /\ total_iterations' = total_iterations + 1
           /\ step' = step
           /\ pc' \in {"perceive", "done"}]_vars

C9_Witness ==
  /\ pc = "perceive"
  /\ prev.outcome = "invalid"
  /\ step = prev.step
  /\ lifelines_left = max_lifelines_per_step - 1
  /\ calls.sandbox = 0

\* C10: an empty tool set ends the step in that pass: the planner and the
\* sandbox are not called, no lifeline is taken, the final answer stays as it
\* was, and the loop goes on with the next step value.
C10_NoToolsAbortsStep ==
  /\ [][(pc = "tools" /\ get_tools_from_servers(selected_servers) = {})
        => /\ calls'.planner = calls.planner
           /\ calls'.sandbox = calls.sandbox
           /\ lifelines_left' = lifelines_left
           /\ final_answer' = final_answer
           /\ returned' = None
           /\ pc' = "for"]_vars
  /\ [][(pc = "for" /\ prev.outcome = "no_tools")
        => \/ step' = step + 1 /\ pc' = "while"
           \/ step + 1 = max_steps /\ returned' = MaxStepsAnswer]_vars
  /\ [](pc \in Running /\ prev.outcome = "no_tools" => step = prev.step + 1)

C10_Witness ==
  /\ pc = "perceive"
  /\ prev.outcome = "no_tools"
  /\ step = prev.step + 1
  /\ lifelines_left = max_lifelines_per_step
  /\ calls.planner = 0

C12_MaxStepsReached ==
  /\ [][(pc = "for" /\ step + 1 >= max_steps)
        => /\ final_answer' = MaxStepsAnswer
           /\ returned' = MaxStepsAnswer
           /\ total_iterations' = total_iterations
           /\ calls' = calls
           /\ pc' = "done"]_vars
  /\ [][(pc = "for" /\ pc' = "done") => step = max_steps - 1]_vars
  /\ [](returned = MaxStepsAnswer
        => /\ step = max_steps - 1
           /\ total_iterations <= 2 * max_steps)
  /\ [](pc \in Running \cup {"while"} => (0 <= step /\ step < max_steps))
  /\ [](max_steps = 0 /\ pc = "done"
        => returned = MaxStepsAnswer /\ total_iterations = 0)

C12_Witness ==
  /\ pc = "done"
  /\ returned = MaxStepsAnswer
  /\ final_answer = MaxStepsAnswer
  /\ max_steps = 2
  /\ step = 1
  /\ "error" \in seen

C14_Original ==
  [][final_answer # None => final_answer' = final_answer]_vars

\* C14, amended: a final answer that run() returns is never overwritten,
\* since every pass that sets such an answer returns in the same step.  The
\* answers set by a pass that goes on to a retry are overwritten by later
\* passes: the "Execution failed" placeholder of an Error outcome, and the
\* wrapped raw output that holds the continuation marker.
C14_ReturnedAnswerStays ==
  /\ [][final_answer' # final_answer
        => \/ returned' = final_answer' /\ pc' = "done"
           \/ /\ pc' = "while"
              /\ \/ /\ prev'.outcome = "error"
                    /\ final_answer' = ExecutionFailedAnswer
                 \/ /\ prev'.outcome = "raw_retry"
                    /\ contains(final_answer', FURTHER)]_vars
  /\ [][final_answer' # final_answer
        => \/ final_answer = None
           \/ final_answer = ExecutionFailedAnswer
           \/ contains(final_answer, FURTHER)]_vars
  /\ [](returned # None => final_answer = returned /\ pc = "done")

C14_Witness ==
  /\ pc = "done"
  /\ returned = <<FINAL, WS, "a">>
  /\ final_answer = returned
  /\ {"error", "raw_retry"} \subseteq seen

\* C20: the pass that follows a continuation finds the override pending and
\* the selection of the pass before cached; it does not call perception, it
\* works with the cached selection, clears the pending override and plans
\* with the override text as the input.  A pass with no override pending
\* calls perception with the original input, and plans with it.
C20_CachedPerception ==
  /\ [](pc = "perceive" /\ prev.outcome = "further"
        => /\ user_input_override = FollowUp(<<"a">>)
           /\ Truthy(last_selected_servers))
  /\ [][(pc = "perceive" /\ prev.outcome = "further")
        => /\ calls'.perception = calls.perception
           /\ selected_servers' = last_selected_servers
           /\ last_selected_servers' = last_selected_servers
           /\ input_used' = user_input_override
           /\ user_input_override' = None]_vars
  /\ [][(pc = "plan" /\ prev.outcome = "further")
        => /\ inputs'.planner = FollowUp(<<"a">>)
           /\ user_input_override' = None]_vars
  /\ [][(pc = "perceive" /\ ~Truthy(user_input_override))
        => /\ calls'.perception = calls.perception + 1
           /\ inputs'.perception = user_input
           /\ last_selected_servers' = selected_servers']_vars
  /\ [][(pc = "plan" /\ prev.outcome # "further")
        => inputs'.planner = user_input]_vars

C20_Witness ==
  /\ pc = "exec"
  /\ prev.outcome = "further"
  /\ step = prev.step + 1
  /\ inputs.planner = FollowUp(<<"a">>)
  /\ inputs.perception = user_input
  /\ calls.perception = 1
  /\ calls.planner = 2
  /\ user_input_override = None

\* the sixth call of an execution enters the proxy
SixthCallIssued ==
  Len(issued) <= MAX_TOOL_CALLS_PER_PLAN
    /\ Len(issued') > MAX_TOOL_CALLS_PER_PLAN

\* C15 as stated: when a plan issues its sixth call, the first five have
\* been forwarded in order, the sixth is not forwarded, the execution is
\* aborted and run_python_sandbox returns the budget Error.
C15_Original ==
  [][SixthCallIssued
     => /\ forwarded' = SubSeq(issued', 1, MAX_TOOL_CALLS_PER_PLAN)
        /\ sandbox_pc' = "returned"
        /\ returned_text' = SandboxError(BudgetExceeded)]_sandbox_vars

\* C15, amended: when a plan issues its sixth call, the first five have been
\* forwarded to the dispatcher in the order issued and the sixth fails with
\* the budget failure without reaching the dispatcher.  A plan that does not
\* catch the failure is aborted, and run_python_sandbox returns the Error
\* with the budget message; a plan that catches it runs on, and none of its
\* later calls reaches the dispatcher either.
C15_SixthCallRefused ==
  /\ [][SixthCallIssued
        => /\ forwarded' = forwarded
           /\ forwarded' = SubSeq(issued', 1, MAX_TOOL_CALLS_PER_PLAN)
           /\ in_progress' = in_progress
           /\ IF code.body[solve_ip].guarded
              THEN /\ sandbox_pc' = "solve"
                   /\ returned_text' = None
              ELSE /\ sandbox_pc' = "returned"
                   /\ returned_text' = SandboxError(BudgetExceeded)
                   /\ escaped' = None]_sandbox_vars
  /\ [](Len(issued) > MAX_TOOL_CALLS_PER_PLAN
        => forwarded = SubSeq(issued, 1, MAX_TOOL_CALLS_PER_PLAN))

C15_Witness ==
  /\ sandbox_pc = "returned"
  /\ returned_text = SandboxError(BudgetExceeded)
  /\ Len(issued) = 6
  /\ forwarded = <<"t1", "t2", "t1", "t2", "t2">>
  /\ solve_ip = 6

\* the loop takes the text for an Error outcome (loop.py, lines 134-164)
LoopSeesError(text) ==
  /\ ~startswith(strip(text), FINAL)
  /\ ~startswith(strip(text), FURTHER)
  /\ startswith(strip(text), ERR)

\* run_python_sandbox returns, and not by way of solve()'s return value
FailureReturned ==
  /\ sandbox_pc # "returned"
  /\ sandbox_pc' = "returned"
  /\ ~(sandbox_pc = "solve" /\ solve_ip > Len(code.body))

\* C16 as stated: no exception ever reaches the caller of run_python_sandbox.
C16_Original == escaped = None

\* C16, amended: every failure raised as an Exception, be it in compiling
\* the plan, in looking up solve, in solve itself, in the dispatcher or by
\* the budget, makes run_python_sandbox return "[sandbox error: <message>]",
\* a text that the loop takes for an Error outcome.  What reaches the caller
\* is only an exception outside the Exception classes (SystemExit,
\* KeyboardInterrupt, CancelledError) raised while the plan runs.
C16_ExceptionsBecomeErrors ==
  /\ [][(sandbox_pc = "exec" /\ ~code.compiles)
        => /\ sandbox_pc' = "returned"
           /\ returned_text' = SandboxError(SyntaxError)]_sandbox_vars
  /\ [][(sandbox_pc = "lookup" /\ "solve" \notin namespace)
        => /\ sandbox_pc' = "returned"
           /\ returned_text' = SandboxError(NoSolveFound)]_sandbox_vars
  /\ [][(AtStatement("raise") /\ code.body[solve_ip].cls = "Exception")
        => /\ sandbox_pc' = "returned"
           /\ returned_text' = SandboxError(PlanRaise("Exception"))
     ]_sandbox_vars
  /\ [][(sandbox_pc = "awaiting" /\ sandbox_pc' \notin {"awaiting", "solve"})
        => /\ sandbox_pc' = "returned"
           /\ returned_text' = SandboxError(ToolFailure)]_sandbox_vars
  /\ [][(Exceeds(call_count') /\ call_count' # call_count
           /\ sandbox_pc' # "solve")
        => /\ sandbox_pc' = "returned"
           /\ returned_text' = SandboxError(BudgetExceeded)]_sandbox_vars
  /\ [][FailureReturned
        => /\ returned_text' \in
                {SandboxError(e) : e \in {SyntaxError, NoSolveFound,
                   ToolFailure, BudgetExceeded, PlanRaise("Exception")}}
           /\ LoopSeesError(returned_text')]_sandbox_vars
  /\ [](escaped # None <=> sandbox_pc = "propagated")
  /\ [](escaped # None => escaped[1] = "BaseException" /\ invoked)

C16_Witness ==
  /\ sandbox_pc = "returned"
  /\ returned_text = SandboxError(ToolFailure)
  /\ forwarded = <<"t1", "t2">>
  /\ escaped = None
  /\ executions = 2

IsPrefix(s, t) == Len(s) <= Len(t) /\ s = SubSeq(t, 1, Len(s))

Sequential(p) == \A i \in 1..Len(p.body) : p.body[i].op # "gather"

\* C17 as stated: the calls reach the dispatcher in the order issued, and no
\* two dispatcher calls of one execution are in progress together.
C17_Original == in_progress <= 1 /\ IsPrefix(forwarded, issued)

\* C17, amended: the calls of a plan reach the dispatcher in the order in
\* which the plan issues them.  When the plan awaits each call before it
\* issues the next, no two dispatcher calls of the execution are in progress
\* together: a call is issued only when none is in progress.  The proxy does
\* not keep a plan from issuing calls together (asyncio.gather).
C17_OrderedCalls ==
  /\ [](IsPrefix(forwarded, issued))
  /\ [][IsPrefix(forwarded, forwarded')
        \/ executions' = executions + 1]_sandbox_vars
  /\ [](sandbox_pc # "idle" /\ Sequential(code) => in_progress <= 1)
  /\ [][(issued' # issued /\ executions' = executions /\ Sequential(code))
        => in_progress = 0]_sandbox_vars

C17_Witness ==
  /\ sandbox_pc = "awaiting"
  /\ Sequential(code)
  /\ in_progress = 1
  /\ issued = <<"t1", "t2", "t1">>
  /\ forwarded = issued

\* C18: every call of run_python_sandbox starts with the names mcp, json and
\* re alone and with a counter of 0; the counter counts the calls of this
\* execution only, the namespace never holds a name of an earlier plan, and a
\* call is refused only when this execution has issued more than 5.
C18_FreshPerCall ==
  /\ [][executions' # executions
        => /\ call_count' = 0
           /\ namespace' = BaseNames
           /\ issued' = <<>>
           /\ forwarded' = <<>>
           /\ invoked' = FALSE]_sandbox_vars
  /\ [](call_count = Len(issued))
  /\ [](sandbox_pc # "idle" => namespace \subseteq BaseNames \cup code.defines)
  /\ [](Len(forwarded) = Min(Len(issued), MAX_TOOL_CALLS_PER_PLAN))

C18_Witness ==
  /\ executions = 2
  /\ forwarded_before = MAX_TOOL_CALLS_PER_PLAN
  /\ Len(forwarded) = MAX_TOOL_CALLS_PER_PLAN
  /\ call_count = MAX_TOOL_CALLS_PER_PLAN
  /\ "helper" \notin namespace

\* C19: a plan that has run and left no name solve makes run_python_sandbox
\* return the Error with "No solve() function found in plan."; solve is not
\* called, no tool call is issued or forwarded, and no exception reaches the
\* caller.
C19_NoSolveFunction ==
  /\ [][(sandbox_pc = "lookup" /\ "solve" \notin namespace)
        => /\ sandbox_pc' = "returned"
           /\ returned_text' = SandboxError(NoSolveFound)
           /\ contains(returned_text', "No solve() function found in plan.")
           /\ LoopSeesError(returned_text')
           /\ invoked' = FALSE
           /\ issued' = <<>>
           /\ escaped' = None]_sandbox_vars
  /\ [](sandbox_pc \notin {"idle", "exec"} /\ "solve" \notin namespace
        => /\ ~invoked
           /\ issued = <<>>
           /\ forwarded = <<>>
           /\ escaped = None)
  /\ [](sandbox_pc = "returned" /\ code.compiles /\ "solve" \notin namespace
        => returned_text = SandboxError(NoSolveFound))

C19_Witness ==
  /\ sandbox_pc = "returned"
  /\ code.defines = {"helper"}
  /\ code.body # <<>>
  /\ returned_text = SandboxError(NoSolveFound)
  /\ ~invoked
  /\ forwarded = <<>>

\* ------------------------------------------------- run driver, history cache
FailureSentinels ==
  {MaxStepsAnswer, MaxIterationsAnswer, ExecutionFailedAnswer}

\* run() has just returned to the driver
RunReturned == driver_pc = "running" /\ run_result' # run_result

Last(s) == s[Len(s)]

\* C21 (as stated): a run that ends with a failure sentinel or with a text
\* that carries the continuation marker leaves the history store and its
\* file as they were.
C21_Original ==
  [][RunReturned
       /\ (run_result' \in FailureSentinels \/ contains(run_result', FURTHER))
     => history' = history /\ store_file' = store_file]_driver_vars

\* C22: when run() returns 'FINAL_ANSWER: a' the driver calls add once, with
\* the query of this turn and the answer 'a', and no turn has more than one
\* call of add.
C22_RecordedOnce ==
  [][/\ records' <= 1
     /\ RunReturned /\ run_result' = <<FINAL, WS, "a">>
        => /\ records' = 1
           /\ history.shape = "list"
              => /\ history'.entries # <<>>
                 /\ Last(history'.entries).query = turn_input
                 /\ Last(history'.entries).answer = <<"a">>]_driver_vars

C22_Witness ==
  /\ driver_pc = "prompt"
  /\ run_result = <<FINAL, WS, "a">>
  /\ records = 1
  /\ history.entries # <<>>
  /\ Last(history.entries).query = TYPED_ABCD
  /\ Last(history.entries).answer = <<"a">>

\* the score of entry i of the store of the call
Score(i) == similarity(query_given, stored[i].query)

\* the entries at or above the threshold of the call
Qualifying ==
  {i \in 1..Len(stored) : AtLeast(Score(i), threshold_given)}

\* the value the claim gives to the call
BestQualifying ==
  /\ Qualifying = {} => found = NoEntry
  /\ Qualifying # {} =>
       \E i \in Qualifying :
         /\ found = stored[i]
         /\ \A j \in Qualifying :
              /\ AtLeast(Score(i), Score(j))
              /\ Score(j) = Score(i) => i <= j
  /\ stored_after = stored

\* C23 (as stated): for every threshold search_similar returns the first of
\* the highest-scoring entries at or above the threshold, none exactly when
\* no entry is at or above it, and leaves the store as it was.
C23_Original == search_pc = "returned" => BestQualifying

\* C23 (amended): the same for a threshold above 0. With threshold 0 an
\* entry of score 0 is at the threshold and is not returned.
C23_BestAboveThreshold ==
  search_pc = "returned" /\ Greater(threshold_given, <<0, 1>>)
    => BestQualifying

\* the second entry wins over the first, a tie goes to the first of the two
C23_Witness ==
  /\ search_pc = "returned"
  /\ threshold_given = DEFAULT_THRESHOLD
  /\ query_given = ABCD
  /\ Len(stored) = 2
  /\ Score(1) = <<6, 8>>
  /\ found = stored[2]

\* add has just been called on a store that is a list
Added == records' = records + 1 /\ history.shape = "list"

\* the same process is running before and after the step
SameProcess == launched' = launched

\* C24 (as stated): add appends one entry at the end of the store and the
\* file then holds the whole store; the store of a process only grows at
\* its end.
C24_Original ==
  [][/\ Added =>
          /\ Len(history'.entries) = Len(history.entries) + 1
          /\ IsPrefix(history.entries, history'.entries)
          /\ store_file'.content = json_dump(history'.entries)
     /\ SameProcess => IsPrefix(history.entries, history'.entries)
    ]_driver_vars

\* C24 (amended): add appends one entry at the end of the store; the file
\* then holds the whole store if the write succeeded, and is as it was or is
\* no JSON document if it failed. The store of a process only grows at its
\* end, by add alone.
C24_AppendAndRewrite ==
  [][/\ Added =>
          /\ Len(history'.entries) = Len(history.entries) + 1
          /\ IsPrefix(history.entries, history'.entries)
          /\ \/ store_file' = File(json_dump(history'.entries))
             \/ store_file' = store_file
             \/ ~json_load(store_file'.content).ok
     /\ SameProcess => IsPrefix(history.entries, history'.entries)
     /\ SameProcess /\ history' # history => Added
    ]_driver_vars

C24_Witness ==
  /\ records = 1
  /\ Len(history.entries) = 4
  /\ store_file = File(json_dump(history.entries))

\* the program has just been started again
Restarted == launched >= 1 /\ launched' = launched + 1

\* C25 (as stated): a cache constructed from the file that a cache has
\* recorded into holds the entries of that cache.
C25_Original == [][Restarted => history' = history]_driver_vars

\* C25 (amended): the same when the last write succeeded, that is when the
\* file holds the text written for the whole store.
C25_RoundTrip ==
  [][Restarted /\ store_file = File(json_dump(history.entries))
     => history' = history]_driver_vars

\* two entries recorded into an empty cache and read again by a new process
C25_Witness ==
  /\ launched = 2
  /\ driver_pc = "prompt"
  /\ Len(history.entries) = 2
  /\ history.entries[1].timestamp = isoformat(1)
  /\ history.entries[2].timestamp = isoformat(2)
  /\ store_file = File(json_dump(history.entries))

\* C26 (as stated): whatever file main() finds, no later search_similar or
\* add ends the process with an exception.
C26_Original == crash \notin {"search_similar", "add"}

\* the user has just answered the question about the cached answer
Answered == driver_pc = "confirm" /\ use_cached' # use_cached

\* with 'y'
Accepted == Answered /\ use_cached' = <<"y">>

\* with another answer
Declined == Answered /\ use_cached' # <<"y">>

\* C27: after a hit the loop runs unless the user accepts the cached answer;
\* accepting ends the turn without a run and without a record; declining
\* goes on to the run as a miss does, with nothing else changed.
C27_CacheIsAdvisory ==
  [][/\ Accepted =>
          /\ driver_pc' = "prompt"
          /\ UNCHANGED <<history, store_file, loop_runs, records,
                         current_session>>
     /\ Declined =>
          /\ driver_pc' = "start"
          /\ UNCHANGED <<history, store_file, clock, current_session,
                         next_session, turn_input, context_session,
                         run_result, records, loop_runs, turns>>
     /\ use_cached' = <<"y">> => loop_runs' = 0 /\ records' = 0
     /\ driver_pc = "prompt" /\ driver_pc' \notin {"prompt", "confirm"}
          /\ SameProcess /\ turns' # turns /\ cached' = NoEntry
          /\ driver_pc' \notin Terminal
        => driver_pc' = "start"
    ]_driver_vars

C27_Witness ==
  /\ use_cached = <<"y">>
  /\ cached # NoEntry
  /\ driver_pc = "prompt"
  /\ loop_runs = 0

\* a hit that the user declined and that was then run and recorded
C27_WitnessDeclined ==
  /\ use_cached = <<"y", "e", "s">>
  /\ cached # NoEntry
  /\ loop_runs = 1
  /\ records = 1

\* C28 (as stated): no exception leaves run().
C28_Original == crash # "run"

\* run() has just been called
Invoked == loop_runs' = loop_runs + 1

\* C29: a run is given the session identifier that the driver holds, the
\* driver takes the identifier of its first run, and it gives one up only at
\* the command 'new' (or when the program is started again).
C29_SessionKept ==
  [][/\ Invoked =>
          /\ current_session # NoSession => context_session' = current_session
          /\ current_session' = context_session'
     /\ current_session # NoSession /\ current_session' # current_session
        => \/ driver_pc = "prompt" /\ lower(turn_input') = NEW_COMMAND
                                   /\ current_session' = NoSession
           \/ ~SameProcess
    ]_driver_vars

\* the second run of a process has the identifier of the first
C29_Witness ==
  /\ driver_pc = "running"
  /\ turns = 2
  /\ launched = 1
  /\ next_session = 2
  /\ context_session = 1
  /\ current_session = 1

\* C30 (as stated): the driver never stops with a run in flight.
C30_Original == ~(driver_pc = "stopped" /\ stopped_at = "running")

\* C30 (amended): an interrupt stops the driver where it is; one that comes
\* while run() is in flight ends that run without a result, and nothing is
\* recorded.
C30_InterruptEndsRun ==
  [][driver_pc' = "stopped" /\ driver_pc # "stopped" /\ SameProcess
     => /\ stopped_at' = driver_pc
        /\ UNCHANGED <<history, store_file, run_result, records>>
    ]_driver_vars

C30_Witness ==
  /\ driver_pc = "stopped"
  /\ stopped_at = "running"
  /\ run_result = None
  /\ records = 0
  /\ loop_runs = 1

\* ------------------------------------------------- formatting of the result
\* solve() has just returned its value to run_python_sandbox
SolveReturned ==
  sandbox_pc = "solve" /\ solve_ip > Len(code.body) /\ sandbox_pc' # "solve"

\* the text that the claim gives to a value
TextClaimed(value) ==
  IF value.type = "dict" /\ HasKey(value.v, "result")
  THEN str(Get(value.v, "result")[2])
  ELSE IF value.type = "dict" THEN JsonDumps(value)
  ELSE IF value.type = "list"
  THEN Join([i \in 1..Len(value.v) |-> str(value.v[i])], <<WS>>)
  ELSE str(value)

\* C31 (as stated): the outcome is the text of the 'result' value of a
\* mapping, the JSON text of any other mapping, the texts of a list's
\* elements joined by single spaces, and the text of any other value.
C31_Original ==
  [][SolveReturned => returned_text' = TextClaimed(code.ret)]_sandbox_vars

\* C31 (amended): the same, except that a mapping without 'result' that
\* holds a value with no JSON form gives the sandbox error text of the
\* serialization failure; the call returns a text in every case.
C31_NormalizedText ==
  [][SolveReturned =>
       /\ sandbox_pc' = "returned"
       /\ returned_text' =
            IF /\ code.ret.type = "dict"
               /\ ~HasKey(code.ret.v, "result")
               /\ ~Serializable(code.ret)
            THEN SandboxError(NotSerializable)
            ELSE TextClaimed(code.ret)]_sandbox_vars

\* a mapping with a 'result' that is a list, beside a value with no JSON form
C31_Witness ==
  /\ sandbox_pc = "returned"
  /\ code.ret.type = "dict"
  /\ ~Serializable(code.ret)
  /\ returned_text = <<"[", "'", "a", "'", ",", WS, "1", "]">>

\* --------------------------------------------------------------- perception
\* the failures the claim names: of the model call, of the parsing of its
\* output (validation included), and an output without selected_servers
PerceptionFailed ==
  \/ raw.kind \in {"raise", "text", "null", "list"}
  \/ "intent" \notin raw.fields
  \/ "selected_servers" \notin raw.fields

\* C32: after a failure of the model call or of the parsing, and for an
\* output without selected_servers, the result selects all available
\* servers.
C32_FailsOpen ==
  perception_pc = "returned" /\ PerceptionFailed
    => perceived.selected_servers = available

\* the model selected one server in an output that fails validation
C32_Witness ==
  /\ perception_pc = "returned"
  /\ raw = Output("dict", {"selected_servers"}, <<"s2">>)
  /\ available = <<"s1", "s2", "s3">>
  /\ perceived.selected_servers = available

\* ------------------------------------------------ what run() hands back
\* C33: every text that run() returns begins with the final marker, so the
\* driver's test for the final marker is true of it and its two other
\* branches are not taken.
C33_ResultIsFinal ==
  returned # None => startswith(returned, FINAL) /\ contains(returned, FINAL)

\* a returned text that carries the continuation marker behind the final one
C33_Witness == returned = <<FINAL, WS, "a", WS, FURTHER, WS, "b">>

\* the pass has just written 'success' into the subtask log
LoggedSuccess ==
  task_progress' # task_progress /\ LastStatus(task_progress') = "success"

\* C34 (as stated): a pass that logs success returns in that pass and takes
\* no lifeline.
C34_Original ==
  [][LoggedSuccess => pc' = "done" /\ lifelines_left' = lifelines_left]_vars

Pending(log) == {i \in 1..Len(log) : log[i].status = "pending"}

\* C35 (as stated): outside the interpretation of a sandbox result no entry
\* of the subtask log is pending.
C35_Original == pc # "interpret" => Pending(task_progress) = {}

\* C36 (as stated): an override is consumed by exactly one pass, so none is
\* pending when run() returns; the pass that finds one has a cached
\* selection, clears it and plans with it; later passes plan with the
\* user's input.
C36_Original ==
  /\ [](pc = "done" => ~Truthy(user_input_override))
  /\ [][pc = "perceive" /\ Truthy(user_input_override)
        => /\ Truthy(last_selected_servers)
           /\ user_input_override' = None
           /\ input_used' = user_input_override]_vars
  /\ [][pc = "plan"
        => inputs'.planner =
             IF prev.outcome = "further" THEN input_used ELSE user_input]_vars

\* C36 (amended): an override is consumed by at most one pass. The first
\* pass after a continuation that gets past the iteration guard finds a
\* cached non-empty selection, clears the override, calls no perception and
\* plans with the override text; every other pass perceives and plans with
\* the user's input. An override is pending only between a continuation and
\* that pass, or, when no such pass follows, until run() returns.
C36_OverrideConsumedOnce ==
  /\ [](Truthy(user_input_override)
        => /\ pc \in {"for", "while", "perceive", "done"}
           /\ pc # "done" => prev.outcome = "further"
           /\ Truthy(last_selected_servers))
  /\ [][pc = "perceive" /\ Truthy(user_input_override)
        => /\ user_input_override' = None
           /\ input_used' = user_input_override
           /\ selected_servers' = last_selected_servers
           /\ calls'.perception = calls.perception]_vars
  /\ [][pc = "perceive" /\ ~Truthy(user_input_override)
        => inputs'.perception = user_input]_vars
  /\ [][pc = "plan"
        => /\ prev.outcome = "further" <=> Truthy(input_used)
           /\ inputs'.planner =
                IF prev.outcome = "further" THEN input_used
                ELSE user_input]_vars

\* an override was consumed and the retry after it plans with the user's
\* input
C36_Witness ==
  /\ pc = "exec"
  /\ "further" \in seen
  /\ prev.outcome = "error"
  /\ calls.planner = 3
  /\ inputs.planner = user_input
  /\ user_input_override = None

\* ------------------------------------------------- the budget of a plan
\* the dispatcher calls of the running execution: those that the proxy
\* forwarded and those that the plan made itself
Invocations == Len(forwarded) + direct

\* C37 (as stated): in every plan execution the dispatcher is invoked at
\* most 5 times, whatever the plan does.
C37_Original == Invocations <= MAX_TOOL_CALLS_PER_PLAN

\* C37 (amended): in every plan execution mcp.call_tool hands at most 5
\* calls to the dispatcher, whatever calls the plan issues through it: a call
\* is handed on only while the counter is at most 5, the counter never goes
\* down within an execution, also when the plan catches the budget failure
\* and keeps issuing calls, and a call that the dispatcher answered with an
\* exception has been counted. Calls that the plan makes on mcp.dispatcher
\* itself are neither counted nor limited.
C37_BudgetOfProxy ==
  /\ [](Len(forwarded) <= MAX_TOOL_CALLS_PER_PLAN)
  /\ [][executions' = executions
        => /\ call_count' >= call_count
           /\ Len(forwarded') > Len(forwarded)
                => /\ call_count' <= MAX_TOOL_CALLS_PER_PLAN
                   /\ Len(forwarded') <= call_count'
           /\ direct' # direct
                => call_count' = call_count /\ forwarded' = forwarded
       ]_sandbox_vars

\* a plan that caught the budget failure has issued seven calls, one of the
\* first five was answered with an exception, and five reached the dispatcher
C37_Witness ==
  /\ sandbox_pc = "returned"
  /\ code.body = SevenGuardedCalls
  /\ Len(issued) = 7
  /\ failed = 1
  /\ Len(forwarded) = MAX_TOOL_CALLS_PER_PLAN
  /\ direct = 0

\* ------------------------------------------------------ the rate limiter
\* C38 (as stated): a RateLimiter with limit R lets at most R calls of
\* acquire() complete within any 60-second window: of R + 1 completed
\* calls the last completes at least 60 seconds after the first.
C38_Original ==
  \A i \in 1..(Len(completed) - requests_per_minute) :
    completed[i + requests_per_minute] - completed[i] >= Minute

====
